---- MODULE Spec2Model ----
(***************************************************************************)
(* State machine of the BJJ video analyzer's batch pipeline:               *)
(*   - StateManager (src/src/state.rs): in-memory cache of per-video       *)
(*     records and their JSON sidecars on disk;                            *)
(*   - BatchProcessor / ProcessorState (src/src/processing.rs): one task   *)
(*     per video under a semaphore, walking the stage sequence;            *)
(*   - ChapterDetector / BJJFanaticsScraper (src/src/chapters): the series *)
(*     chapter file used as a cache in front of the product page fetch;    *)
(*   - VideoFile::detect_processing_stage (shared/bjj-core): the artifact  *)
(*     detector.                                                           *)
(* External adapters (ffprobe, ffmpeg, whisper, LLM, HTTP) are modelled by *)
(* their outcome, chosen nondeterministically at each call.  File-system   *)
(* writes of the pipeline itself are assumed not to fail.                  *)
(***************************************************************************)
EXTENDS Integers, Sequences, FiniteSets, TLC

(* ------------------------------ bounds --------------------------------- *)
\* number of process_directory calls in one behaviour
MaxRuns == 3
\* largest permit count of the worker semaphore tried
MaxWorkers == 2
\* number of times the environment may rewrite the video file
MaxMtime == 1
\* number of operator interventions (touch, reset, kill) in one behaviour
MaxEnv == 2
\* largest size in bytes of a transcript lying next to a scanned video
MaxSize == 11

(* ------------------------------ stages --------------------------------- *)
\* enum ProcessingStage, in declaration order (derive(PartialOrd, Ord))
Stages ==
  << "Pending", "VideoAnalysis", "AudioExtraction", "AudioEnhancement",
     "Transcription", "LLMCorrection", "ChapterDetection",
     "SubtitleGeneration", "Completed", "Error" >>

StageSet == { Stages[i] : i \in DOMAIN Stages }

\* discriminant of a stage: the derived Ord compares these
StageOrd(s) == CHOOSE i \in DOMAIN Stages : Stages[i] = s

\* StateManager::next_stage
next_stage(current) ==
  CASE current = "Pending" -> "VideoAnalysis"
    [] current = "VideoAnalysis" -> "AudioExtraction"
    [] current = "AudioExtraction" -> "AudioEnhancement"
    [] current = "AudioEnhancement" -> "Transcription"
    [] current = "Transcription" -> "LLMCorrection"
    [] current = "LLMCorrection" -> "ChapterDetection"
    [] current = "ChapterDetection" -> "SubtitleGeneration"
    [] current = "SubtitleGeneration" -> "Completed"
    [] current = "Completed" -> "Completed"
    [] current = "Error" -> "Error"

SeqToSet(s) == { s[i] : i \in DOMAIN s }

\* Vec::retain
RECURSIVE Retain(_, _)
Retain(s, keep) ==
  IF s = << >> THEN << >>
  ELSE IF Head(s) \in keep THEN << Head(s) >> \o Retain(Tail(s), keep)
       ELSE Retain(Tail(s), keep)

(* ------------------------------ videos --------------------------------- *)
\* A video path  <top>/<parent>/<name>; the file name is a sequence of
\* characters so that the sidecar name's sanitisation can be computed.
NameX == << "x", ".", "m" >>

P1 == [top |-> "a", parent |-> "s", name |-> NameX]
P2 == [top |-> "b", parent |-> "s", name |-> NameX]
P3 == [top |-> "a", parent |-> "t", name |-> NameX]
\* another volume of the series of P1, lying in the same directory
NameY == << "y", ".", "m" >>
P4 == [top |-> "a", parent |-> "s", name |-> NameY]

AllVideos == { P1, P2, P3, P4 }

\* StateManager::generate_state_key: "<parent dir name>_<file name>"
generate_state_key(p) == << p.parent, "_" >> \o p.name

\* the sidecar's file name: ' ' and '.' replaced by '_', plus ".json"
sidecar_filename(p) ==
  [ i \in DOMAIN p.name |->
      IF p.name[i] \in { " ", "." } THEN "_" ELSE p.name[i] ] \o << ".json" >>

\* Path::file_stem: the file name up to its last '.'
file_stem(p) ==
  LET dots == { i \in DOMAIN p.name : p.name[i] = "." }
      last == IF dots = {} THEN 0 ELSE CHOOSE i \in dots : \A j \in dots : j <= i
  IN IF last <= 1 THEN p.name ELSE SubSeq(p.name, 1, last - 1)

\* the directory holding the video
video_dir(p) == << p.top, p.parent >>

Keys == { generate_state_key(p) : p \in AllVideos }
SidecarFiles == { sidecar_filename(p) : p \in AllVideos }
Stems == { file_stem(p) : p \in AllVideos }
Dirs == { video_dir(p) : p \in AllVideos }

(* ------------------------------ state ---------------------------------- *)
VARIABLES
  videos,       \* the video paths the directory was set up with
  llm_enabled,  \* config.llm.enable_correction
  workers,      \* max_workers given to BatchProcessor::new
  pages_ok,     \* product-pages.txt exists and lists a matching URL
  vfile,        \* per path: the video file (exists, mtime, size)
  dirfiles,     \* per path: the artifacts lying next to the video
  sidecar,      \* per sidecar file name: the file in .bjj_analyzer_state
  outfs,        \* per stem: the artifacts in the output directory
  chapfile,     \* per video directory: the series chapter file exists
  chap_out,     \* the series chapter file exists in chapters_dir
  cache,        \* StateManager.state_cache
  phase,        \* "idle" | "running": a process_directory call is under way
  run,          \* number of process_directory calls started
  env,          \* number of operator interventions so far
  tasks,        \* the paths discovered by the current run
  pc,           \* per path: position of its task
  ret,          \* per path: where the task continues after update_state
  st,           \* per path: the task's local VideoProcessingState
  res,          \* per path: the task's VideoProcessingResult
  permits,      \* worker_semaphore.available_permits()
  chan,         \* the mpsc channel of results
  results,      \* the results collected by process_videos_parallel
  calls,        \* per path: collaborators invoked in this run, in order
  skipped,      \* per path: stages skipped by can_skip_stage in this run
  failed,       \* per path: collaborators whose call failed in this run
  report,       \* the ProcessingResult returned by the last process_directory
  scandir,      \* per stem: the files of the directory given to the detector
  detected,     \* per stem: the stage scan_directory found for its video
  args,         \* the arguments of a function called on its own
  returned,     \* what that call returned, once it has
  startRec,     \* per path: the record loaded for it when the run started
  chapAtStart,  \* per path: a series chapter file existed when the run started
  quiet,        \* the last run returned and nothing was changed since
  prevClean,    \* value of quiet when the current run started
  prevStatus    \* per path: its result status in the run before, when prevClean

vars ==
  << videos, llm_enabled, workers, pages_ok, vfile, dirfiles, sidecar, outfs,
     chapfile, chap_out, cache, phase, run, env, tasks, pc, ret, st, res,
     permits, chan, results, calls, skipped, failed, report, scandir,
     detected, args, returned, startRec, chapAtStart, quiet, prevClean, prevStatus >>

config == << videos, llm_enabled, workers, pages_ok, dirfiles >>
history == << startRec, chapAtStart, prevClean, prevStatus >>
detector == << scandir, detected >>
pure == << args, returned >>

(* --------------------------- StateManager ------------------------------ *)
\* StateManager::create_new_state
create_new_state(p) ==
  [ video_path |-> p,
    video_modified |-> vfile[p].mtime,
    current_stage |-> "Pending",
    completed_stages |-> << >>,
    audio_path |-> << >>,
    raw_transcript_path |-> << >>,
    corrected_transcript_path |-> << >>,
    srt_path |-> << >>,
    corrections_applied |-> << >>,
    chapters_detected |-> << >>,
    error_message |-> << >> ]

is_video_unchanged_size_only(p, state) == vfile[p].size > 0

\* StateManager::is_video_unchanged
is_video_unchanged(p, state) ==
  LET size_matches == vfile[p].size > 0
      time_matches == vfile[p].mtime = state.video_modified
  IN size_matches /\ time_matches

can_skip_never(state, stage) == FALSE

\* StateManager::can_skip_stage
can_skip_stage(state, stage) == stage \in SeqToSet(state.completed_stages)

mark_stage_completed_only(state, stage) ==
  [ state EXCEPT !.completed_stages = << stage >>,
                 !.current_stage = next_stage(@) ]

\* StateManager::mark_stage_completed
mark_stage_completed(state, stage) ==
  [ state EXCEPT
      !.completed_stages =
         IF stage \in SeqToSet(@) THEN @ ELSE Append(@, stage),
      !.current_stage = next_stage(@) ]

AbsentFile == [ state |-> "absent", rec |-> << >> ]
EmptyFile == [ state |-> "empty", rec |-> << >> ]
GarbledFile == [ state |-> "garbled", rec |-> << >> ]
OkFile(r) == [ state |-> "ok", rec |-> << r >> ]

\* a loading that takes a sidecar that does not parse for the record of a
\* pending video
load_existing_states_lenient ==
  [ k \in Keys |->
      LET ps == { p \in AllVideos :
                    /\ generate_state_key(p) = k
                    /\ sidecar[sidecar_filename(p)].state # "absent" }
          p == CHOOSE q \in ps : TRUE
      IN IF ps = {} THEN << >>
         ELSE IF sidecar[sidecar_filename(p)].state = "ok"
           THEN sidecar[sidecar_filename(p)].rec
           ELSE << create_new_state(p) >> ]

\* StateManager::load_existing_states: every sidecar that parses is cached
\* under the key of the path it records; the others are skipped.
load_existing_states ==
  [ k \in Keys |->
      LET fs == { f \in SidecarFiles :
                    /\ sidecar[f].state = "ok"
                    /\ generate_state_key(sidecar[f].rec[1].video_path) = k }
      IN IF fs = {} THEN << >> ELSE sidecar[CHOOSE f \in fs : TRUE].rec ]

(* ----------------------- artifact detector ----------------------------- *)
MeaningfulBytes == 10

\* a file counts as soon as it exists
is_file_present(size) == size >= 0

\* VideoFile::is_file_meaningful; a size below 0 stands for a missing file
is_file_meaningful(size) == size >= 0 /\ size > MeaningfulBytes

\* VideoFile::detect_processing_stage
detect_processing_stage(a) ==
  IF a.corrected >= 0 /\ a.srt /\ is_file_meaningful(a.corrected)
    THEN "Completed"
  ELSE IF a.corrected >= 0 /\ is_file_meaningful(a.corrected)
    THEN "LLMCorrected"
  ELSE IF a.txt >= 0 /\ a.srt /\ is_file_meaningful(a.txt)
    THEN "Transcribed"
  ELSE IF a.txt >= 0 /\ is_file_meaningful(a.txt)
    THEN "Transcribed"
  ELSE IF a.wav THEN "AudioExtracted"
  ELSE "Pending"

NoArtifacts == [ wav |-> FALSE, txt |-> 0 - 1, corrected |-> 0 - 1, srt |-> FALSE ]
ResumeArtifacts == [ wav |-> TRUE, txt |-> 500, corrected |-> 0 - 1, srt |-> FALSE ]

\* the names of the videos in the scanned directory, without extension
ScanStems == { "video1", "video2", "video3" }

\* ArtifactDetector::new: the supported extensions
video_extensions == { "mp4", "mkv", "avi", "mov", "wmv" }

\* str::to_lowercase on the extensions that occur
to_lowercase(ext) ==
  CASE ext = "MP4" -> "mp4"
    [] ext = "M4V" -> "m4v"
    [] OTHER -> ext

\* ArtifactDetector::is_video_file over a file's extension ("none": the
\* directory holds no file <stem>.<ext> beside the artifacts)
is_video_file(ext) == ext # "none" /\ to_lowercase(ext) \in video_extensions

\* the bytes written to video3_corrected.txt by the scan test
Corrected3 == << "c", "o", "r", "r", "e", "c", "t", "e", "d", "3" >>

\* the directory built by test_artifact_detector_scan_directory
TestDirectory ==
  [ s \in ScanStems |->
      CASE s = "video1" -> [ ext |-> "mp4", a |-> NoArtifacts ]
        [] s = "video2" -> [ ext |-> "mp4", a |-> [ NoArtifacts EXCEPT !.wav = TRUE ] ]
        [] s = "video3" ->
             [ ext |-> "mp4",
               a |-> [ NoArtifacts EXCEPT !.corrected = Len(Corrected3) ] ] ]

EmptyDirectory == [ s \in ScanStems |-> [ ext |-> "none", a |-> NoArtifacts ] ]
NotScanned == [ s \in ScanStems |-> "none" ]

\* ArtifactDetector::scan_directory: every entry of the directory that is a
\* video file becomes a VideoFile (VideoFile::new), which caches the stage
\* detected from the artifacts of its stem
scan_directory(dir) ==
  [ s \in ScanStems |->
      IF is_video_file(dir[s].ext) THEN detect_processing_stage(dir[s].a)
      ELSE "none" ]

(* ------------------------------ initial -------------------------------- *)
NoResult ==
  [ status |-> "InProgress", audio_info |-> FALSE, text |-> "none",
    text_path |-> << >>, srt_path |-> << >>, error_message |-> << >>,
    chapters |-> 0 ]

NoOutput ==
  [ wav |-> FALSE, txt |-> "absent", srt |-> "absent",
    old_txt |-> "absent", old_srt |-> "absent" ]

\* The state after BatchProcessor::new for a directory holding the videos vs
\* with w worker permits: nothing processed yet, no sidecar, no output;
\* r counts the runs that are not looked at.
InitFiles(vs, w, r) ==
  /\ videos = vs
  /\ workers = w
  /\ llm_enabled \in BOOLEAN
  /\ pages_ok \in BOOLEAN
  /\ vfile = [ p \in AllVideos |->
                 [ exists |-> p \in vs, mtime |-> 0, size |-> 1 ] ]
  /\ dirfiles \in [ AllVideos -> { NoArtifacts, ResumeArtifacts } ]
  /\ \A p \in AllVideos \ vs : dirfiles[p] = NoArtifacts
  /\ sidecar = [ f \in SidecarFiles |-> AbsentFile ]
  /\ outfs = [ s \in Stems |-> NoOutput ]
  /\ chapfile = [ d \in Dirs |-> FALSE ]
  /\ chap_out = FALSE
  /\ cache = [ k \in Keys |-> << >> ]
  /\ phase = "idle"
  /\ run = r
  /\ env = 0
  /\ tasks = {}
  /\ pc = [ p \in AllVideos |-> "idle" ]
  /\ ret = [ p \in AllVideos |-> "idle" ]
  /\ st = [ p \in AllVideos |-> create_new_state(p) ]
  /\ res = [ p \in AllVideos |-> NoResult ]
  /\ permits = w
  /\ chan = << >>
  /\ results = << >>
  /\ calls = [ p \in AllVideos |-> << >> ]
  /\ skipped = [ p \in AllVideos |-> {} ]
  /\ failed = [ p \in AllVideos |-> {} ]
  /\ report = << >>
  /\ detected = NotScanned
  /\ startRec = [ p \in AllVideos |-> << >> ]
  /\ chapAtStart = [ p \in AllVideos |-> FALSE ]
  /\ quiet = FALSE
  /\ prevClean = FALSE
  /\ prevStatus = [ p \in AllVideos |-> "none" ]

\* ... and no function called on its own
InitWith(vs, w, r) ==
  /\ InitFiles(vs, w, r)
  /\ args = << >>
  /\ returned = << >>

\* no video or one video, one worker: the life of a directory over
\* several runs.  The video lies next to the audio and the transcript of an
\* earlier processing, which the orchestrator never looks at.
Init ==
  /\ \E vs \in { {}, { P1 } } :
       /\ InitWith(vs, 1, 0)
       /\ \A p \in vs : dirfiles[p] = ResumeArtifacts
  /\ scandir = EmptyDirectory

\* One run over two videos of the same file name in different directories,
\* sharing the sidecar file (P1, P3) or the identity key as well (P1, P2),
\* with nothing lying next to them.
InitPar ==
  \E vs \in { { P1, P2 }, { P1, P3 } } :
    \E w \in 1 .. MaxWorkers :
      /\ InitWith(vs, w, MaxRuns - 1)
      /\ scandir = EmptyDirectory
      /\ \A p \in vs : dirfiles[p] = NoArtifacts

(* --------------------------- process_directory ------------------------- *)
\* a discovery that lists the videos the directory was set up with
discover_videos_listed == videos

\* VideoProcessor::discover_videos: the video files lying in the directory
discover_videos == { p \in videos : vfile[p].exists }

\* the ProcessingResult of a directory without videos
EmptyProcessingResult == [ total |-> 0, successful |-> 0, failed |-> 0 ]

\* the ProcessingResult computed from the collected results
ProcessingResult(rs) ==
  LET successful ==
        Cardinality({ i \in DOMAIN rs : rs[i].status = "Completed" })
  IN [ total |-> Len(rs), successful |-> successful,
       failed |-> Len(rs) - successful ]

\* BatchProcessor::process_directory up to the spawning of the tasks in
\* process_videos_parallel: a new StateManager loads the sidecars, the videos
\* are discovered and one task is spawned per video.
StartRun ==
  /\ phase = "idle"
  /\ run < MaxRuns
  /\ LET found == discover_videos
         loaded == load_existing_states
     IN /\ run' = run + 1
        /\ cache' = loaded
        /\ tasks' = found
        /\ phase' = IF found = {} THEN "idle" ELSE "running"
        /\ pc' = [ p \in AllVideos |-> IF p \in found THEN "spawned" ELSE "idle" ]
        /\ ret' = [ p \in AllVideos |-> "idle" ]
        /\ st' = [ p \in AllVideos |-> create_new_state(p) ]
        /\ res' = [ p \in AllVideos |-> NoResult ]
        /\ chan' = << >>
        /\ results' = << >>
        /\ calls' = [ p \in AllVideos |-> << >> ]
        /\ skipped' = [ p \in AllVideos |-> {} ]
        /\ failed' = [ p \in AllVideos |-> {} ]
        /\ report' = IF found = {} THEN << EmptyProcessingResult >> ELSE << >>
        /\ startRec' = [ p \in AllVideos |-> loaded[generate_state_key(p)] ]
        /\ chapAtStart' = [ p \in AllVideos |-> chapfile[video_dir(p)] \/ chap_out ]
        /\ prevClean' = quiet
        /\ quiet' = (found = {})
        /\ prevStatus' = [ p \in AllVideos |->
                             IF p \in tasks /\ quiet THEN res[p].status ELSE "none" ]
  /\ UNCHANGED << config, detector, pure, vfile, sidecar, outfs, chapfile,
                  chap_out, env, permits >>

\* the acquisition without the wait for a free permit
AcquireNoWait(p) ==
  /\ pc[p] = "spawned"
  /\ permits' = permits - 1
  /\ pc' = [ pc EXCEPT ![p] = "get_state" ]
  /\ UNCHANGED << config, detector, pure, report, history,
                  vfile, sidecar, outfs, chapfile, chap_out,
                  cache, phase, run, env, tasks, ret, st, res, chan, results,
                  calls, failed, skipped, quiet >>

\* the spawned task's  semaphore.acquire().await
Acquire(p) ==
  /\ pc[p] = "spawned"
  /\ permits > 0
  /\ permits' = permits - 1
  /\ pc' = [ pc EXCEPT ![p] = "get_state" ]
  /\ UNCHANGED << config, detector, pure, report, history,
                  vfile, sidecar, outfs, chapfile, chap_out,
                  cache, phase, run, env, tasks, ret, st, res, chan, results,
                  calls, failed, skipped, quiet >>

\* get_or_create_state that never returns the cached record
GetOrCreateFresh(p) ==
  /\ pc[p] = "get_state"
  /\ vfile[p].exists
  /\ st' = [ st EXCEPT ![p] = create_new_state(p) ]
  /\ cache' = [ cache EXCEPT ![generate_state_key(p)] = << create_new_state(p) >> ]
  /\ pc' = [ pc EXCEPT ![p] = "va" ]
  /\ UNCHANGED << config, detector, pure, report, history,
                  vfile, sidecar, outfs, chapfile, chap_out,
                  phase, run, env, tasks, ret, res, permits, chan, results,
                  calls, failed, skipped, quiet >>

\* StateManager::get_or_create_state, called first by process_single_video;
\* it fails (the task's result is an Err) when the video file is gone.
GetOrCreate(p) ==
  /\ pc[p] = "get_state"
  /\ LET key == generate_state_key(p)
         cached == cache[key]
     IN IF ~ vfile[p].exists
          THEN /\ res' = [ res EXCEPT ![p].status = "Err" ]
               /\ pc' = [ pc EXCEPT ![p] = "send" ]
               /\ UNCHANGED << st, cache >>
          ELSE IF cached # << >> /\ is_video_unchanged(p, cached[1])
            THEN /\ st' = [ st EXCEPT ![p] = cached[1] ]
                 /\ pc' = [ pc EXCEPT ![p] = "va" ]
                 /\ UNCHANGED << res, cache >>
            ELSE /\ st' = [ st EXCEPT ![p] = create_new_state(p) ]
                 /\ cache' = [ cache EXCEPT ![key] = << create_new_state(p) >> ]
                 /\ pc' = [ pc EXCEPT ![p] = "va" ]
                 /\ UNCHANGED res
  /\ UNCHANGED << config, detector, pure, report, history,
                  vfile, sidecar, outfs, chapfile, chap_out,
                  phase, run, env, tasks, ret, permits, chan, results, calls, failed,
                  skipped, quiet >>

(* ------------------------------ update_state --------------------------- *)
\* StateManager::update_state, first half: the cache entry is replaced
\* under the write lock.
UpdateCache(p) ==
  /\ pc[p] = "upd_cache"
  /\ cache' = [ cache EXCEPT ![generate_state_key(st[p].video_path)] = << st[p] >> ]
  /\ pc' = [ pc EXCEPT ![p] = "upd_trunc" ]
  /\ UNCHANGED << config, detector, pure, report, history,
                  vfile, sidecar, outfs, chapfile, chap_out,
                  phase, run, env, tasks, ret, st, res, permits, chan, results,
                  calls, failed, skipped, quiet >>

\* StateManager::save_state_to_disk: fs::write opens the sidecar itself,
\* truncating it ...
SaveTruncate(p) ==
  /\ pc[p] = "upd_trunc"
  /\ sidecar' = [ sidecar EXCEPT ![sidecar_filename(st[p].video_path)] = EmptyFile ]
  /\ pc' = [ pc EXCEPT ![p] = "upd_write" ]
  /\ UNCHANGED << config, detector, pure, report, history,
                  vfile, outfs, chapfile, chap_out, cache,
                  phase, run, env, tasks, ret, st, res, permits, chan, results,
                  calls, failed, skipped, quiet >>

\* ... and then writes the JSON from offset 0.  When another writer has
\* written a different record since this one's truncation, the bytes of the
\* two overlay: the file holds this record, or this record followed by the
\* tail of a longer one.
SaveWrite(p) ==
  /\ pc[p] = "upd_write"
  /\ LET f == sidecar_filename(st[p].video_path)
     IN \E out \in IF sidecar[f].state = "empty" \/ sidecar[f] = OkFile(st[p])
                     THEN { OkFile(st[p]) }
                     ELSE { OkFile(st[p]), GarbledFile } :
          sidecar' = [ sidecar EXCEPT ![f] = out ]
  /\ pc' = [ pc EXCEPT ![p] = ret[p] ]
  /\ UNCHANGED << config, detector, pure, report, history,
                  vfile, outfs, chapfile, chap_out, cache,
                  phase, run, env, tasks, ret, st, res, permits, chan, results,
                  calls, failed, skipped, quiet >>

(* ------------------------- process_single_video ------------------------ *)
\* the mark and the update after which the task returns instead of going on
MarkAndUpdateStop(p, state, stage, next) ==
  /\ st' = [ st EXCEPT ![p] = mark_stage_completed(state, stage) ]
  /\ ret' = [ ret EXCEPT ![p] = "send" ]
  /\ pc' = [ pc EXCEPT ![p] = "upd_cache" ]

\* self.state_manager.mark_stage_completed(&mut state, ..) followed by
\* self.state_manager.update_state(state.clone()).await?
MarkAndUpdate(p, state, stage, next) ==
  /\ st' = [ st EXCEPT ![p] = mark_stage_completed(state, stage) ]
  /\ ret' = [ ret EXCEPT ![p] = next ]
  /\ pc' = [ pc EXCEPT ![p] = "upd_cache" ]

Called(p, what) == calls' = [ calls EXCEPT ![p] = Append(@, what) ]
Skipped(p, stage) == skipped' = [ skipped EXCEPT ![p] = @ \cup { stage } ]
\* the call of what has been made and returned an error when bad
Failed(p, what, bad) ==
  failed' = [ failed EXCEPT ![p] = IF bad THEN @ \cup { what } ELSE @ ]

\* ffprobe cannot succeed on an empty file
ProbeOutcomes(p) == IF vfile[p].size > 0 THEN { "ok", "fail" } ELSE { "fail" }

\* Stage 1: Video Analysis
ProcessVideoAnalysis(p) ==
  /\ pc[p] = "va"
  /\ IF ~ can_skip_stage(st[p], "VideoAnalysis")
       THEN \E probe \in ProbeOutcomes(p) :
              /\ Called(p, "probe")
              /\ Failed(p, "probe", probe = "fail")
              /\ IF probe = "ok"
                   THEN /\ MarkAndUpdate(p, st[p], "VideoAnalysis", "ae")
                        /\ UNCHANGED res
                   ELSE /\ res' = [ res EXCEPT ![p].status = "Failed",
                                               ![p].error_message = << "Video analysis failed" >> ]
                        /\ pc' = [ pc EXCEPT ![p] = "send" ]
                        /\ UNCHANGED << st, ret >>
              /\ UNCHANGED skipped
       ELSE /\ Skipped(p, "VideoAnalysis")
            /\ pc' = [ pc EXCEPT ![p] = "ae" ]
            /\ UNCHANGED << st, ret, res, calls, failed >>
  /\ UNCHANGED << config, detector, pure, report, history,
                  vfile, sidecar, outfs, chapfile, chap_out,
                  cache, phase, run, env, tasks, permits, chan, results, quiet >>

\* Stage 2: Audio Extraction
ProcessAudioExtraction(p) ==
  /\ pc[p] = "ae"
  /\ LET stem == file_stem(p)
     IN IF ~ can_skip_stage(st[p], "AudioExtraction")
          THEN \E extract \in { "ok", "fail" } :
                 /\ Called(p, "extract")
                 /\ Failed(p, "extract", extract = "fail")
                 /\ IF extract = "ok"
                      THEN /\ outfs' = [ outfs EXCEPT ![stem].wav = TRUE ]
                           /\ res' = [ res EXCEPT ![p].audio_info = TRUE ]
                           /\ MarkAndUpdate(p, [ st[p] EXCEPT !.audio_path = << "wav" >> ],
                                            "AudioExtraction", "tr")
                      ELSE /\ MarkAndUpdate(p, st[p], "AudioExtraction", "tr")
                           /\ UNCHANGED << outfs, res >>
                 /\ UNCHANGED skipped
          ELSE /\ Skipped(p, "AudioExtraction")
               /\ res' = [ res EXCEPT ![p].audio_info =
                             st[p].audio_path # << >> /\ outfs[stem].wav ]
               /\ pc' = [ pc EXCEPT ![p] = "tr" ]
               /\ UNCHANGED << st, ret, outfs, calls, failed >>
  /\ UNCHANGED << config, detector, pure, report, history,
                  vfile, sidecar, chapfile, chap_out, cache,
                  phase, run, env, tasks, permits, chan, results, quiet >>

\* Stage 3: Transcription
ProcessTranscription(p) ==
  /\ pc[p] = "tr"
  /\ LET stem == file_stem(p)
     IN IF ~ res[p].audio_info
          THEN /\ pc' = [ pc EXCEPT ![p] = "llm" ]
               /\ UNCHANGED << st, ret, res, outfs, calls, failed, skipped >>
          ELSE IF ~ can_skip_stage(st[p], "Transcription")
            THEN \E transcribe \in { "ok", "fail" } :
                   /\ Called(p, "transcribe")
                   /\ Failed(p, "transcribe", transcribe = "fail")
                   /\ IF transcribe = "ok"
                        THEN /\ outfs' = [ outfs EXCEPT ![stem].txt = "orig",
                                                        ![stem].srt = "orig" ]
                             /\ res' = [ res EXCEPT ![p].text = "orig",
                                                    ![p].text_path = << "txt" >>,
                                                    ![p].srt_path = << "srt" >> ]
                             /\ MarkAndUpdate(p,
                                  [ st[p] EXCEPT !.raw_transcript_path = << "txt" >>,
                                                 !.srt_path = << "srt" >> ],
                                  "Transcription", "llm")
                        ELSE /\ MarkAndUpdate(p, st[p], "Transcription", "llm")
                             /\ UNCHANGED << outfs, res >>
                   /\ UNCHANGED skipped
            ELSE /\ Skipped(p, "Transcription")
                 /\ LET path == st[p].raw_transcript_path
                    IN IF path # << >> /\ outfs[stem][path[1]] # "absent"
                         THEN res' = [ res EXCEPT ![p].text = outfs[stem][path[1]],
                                                  ![p].text_path = path,
                                                  ![p].srt_path = st[p].srt_path ]
                         ELSE UNCHANGED res
                 /\ pc' = [ pc EXCEPT ![p] = "llm" ]
                 /\ UNCHANGED << st, ret, outfs, calls, failed >>
  /\ UNCHANGED << config, detector, pure, report, history,
                  vfile, sidecar, chapfile, chap_out, cache,
                  phase, run, env, tasks, permits, chan, results, quiet >>

\* a correction that writes the corrected content over the original
WriteInPlace(files, src, old, new) ==
  IF files[src] = "absent" THEN files
  ELSE [ files EXCEPT ![new] = "corr" ]

\* The rename protocol of stage 4 for one of the two files: the original is
\* renamed to <stem>_old.<ext> and the corrected content written to
\* <stem>.<ext>.  The rename fails, and nothing is written, when the
\* original is not there.
RenameAndWrite(files, src, old, new) ==
  IF files[src] = "absent" THEN files
  ELSE [ [ [ files EXCEPT ![old] = files[src] ] EXCEPT ![src] = "absent" ]
           EXCEPT ![new] = "corr" ]

\* Stage 4: LLM Correction (if enabled)
ProcessLLMCorrection(p) ==
  /\ pc[p] = "llm"
  /\ LET stem == file_stem(p)
     IN IF res[p].text = "none"
          THEN /\ pc' = [ pc EXCEPT ![p] = "cd" ]
               /\ UNCHANGED << st, ret, res, outfs, calls, failed, skipped >>
          ELSE IF llm_enabled /\ ~ can_skip_stage(st[p], "LLMCorrection")
            THEN \E llm \in { "fail", "empty", "some" } :
                   /\ Called(p, "llm")
                   /\ Failed(p, "llm", llm = "fail")
                   /\ UNCHANGED skipped
                   /\ IF llm = "fail"
                        THEN /\ MarkAndUpdate(p, st[p], "LLMCorrection", "cd")
                             /\ UNCHANGED << res, outfs >>
                      ELSE IF llm = "empty"
                        THEN /\ MarkAndUpdate(p, [ st[p] EXCEPT !.corrections_applied = << 0 >> ],
                                              "LLMCorrection", "cd")
                             /\ UNCHANGED << res, outfs >>
                      ELSE
                        LET tp == res[p].text_path
                            sp == res[p].srt_path
                            txt_ok == tp # << >> /\ outfs[stem][tp[1]] # "absent"
                            f1 == IF txt_ok
                                    THEN RenameAndWrite(outfs[stem], tp[1], "old_txt", "txt")
                                    ELSE outfs[stem]
                            srt_ok == sp # << >> /\ f1[sp[1]] # "absent"
                            f2 == IF srt_ok
                                    THEN RenameAndWrite(f1, sp[1], "old_srt", "srt")
                                    ELSE f1
                            s1 == [ st[p] EXCEPT !.corrections_applied = << 1 >> ]
                            s2 == IF txt_ok
                                    THEN [ s1 EXCEPT !.raw_transcript_path = << "txt" >>,
                                                     !.corrected_transcript_path = << "old_txt" >> ]
                                    ELSE s1
                            s3 == IF srt_ok THEN [ s2 EXCEPT !.srt_path = << "srt" >> ] ELSE s2
                        IN /\ outfs' = [ outfs EXCEPT ![stem] = f2 ]
                           /\ res' = [ res EXCEPT
                                 ![p].text = "corr",
                                 ![p].text_path = IF txt_ok THEN << "txt" >> ELSE @,
                                 ![p].srt_path = IF srt_ok THEN << "srt" >> ELSE @ ]
                           /\ MarkAndUpdate(p, s3, "LLMCorrection", "cd")
          ELSE IF llm_enabled
            THEN /\ Skipped(p, "LLMCorrection")
                 /\ LET path == st[p].corrected_transcript_path
                    IN IF path # << >> /\ outfs[stem][path[1]] # "absent"
                         THEN res' = [ res EXCEPT ![p].text = outfs[stem][path[1]] ]
                         ELSE UNCHANGED res
                 /\ pc' = [ pc EXCEPT ![p] = "cd" ]
                 /\ UNCHANGED << st, ret, outfs, calls, failed >>
          ELSE /\ MarkAndUpdate(p, st[p], "LLMCorrection", "cd")
               /\ UNCHANGED << res, outfs, calls, failed, skipped >>
  /\ UNCHANGED << config, detector, pure, report, history,
                  vfile, sidecar, chapfile, chap_out, cache,
                  phase, run, env, tasks, permits, chan, results, quiet >>

\* Stage 5: Chapter Detection (always run): ChapterDetector::detect_chapters
\* and BJJFanaticsScraper::scrape_chapters.  The series chapter file of the
\* video's directory is read when it exists, then the one of chapters_dir;
\* otherwise the product page named by product-pages.txt is fetched and,
\* when it yields chapters, the file is written to the video's directory.
\* detect_chapters turns every failure into an empty list.
ProcessChapterDetection(p) ==
  /\ pc[p] = "cd"
  /\ LET d == video_dir(p)
         Done(found, wrote) ==
           /\ chapfile' = [ chapfile EXCEPT ![d] = @ \/ wrote ]
           /\ res' = [ res EXCEPT ![p].chapters = IF found THEN 1 ELSE 0 ]
           /\ MarkAndUpdate(p,
                [ st[p] EXCEPT !.chapters_detected = << IF found THEN 1 ELSE 0 >> ],
                "ChapterDetection", "fin")
     IN IF chapfile[d] \/ chap_out
          THEN /\ Called(p, "chapter")
               /\ Done(TRUE, FALSE)
               /\ UNCHANGED failed
          ELSE IF ~ pages_ok
            THEN /\ Called(p, "chapter")
                 /\ Done(FALSE, FALSE)
                 /\ UNCHANGED failed
            ELSE \E page \in { "fail", "empty", "some" } :
                   /\ calls' = [ calls EXCEPT ![p] = @ \o << "chapter", "fetch" >> ]
                   /\ Failed(p, "fetch", page = "fail")
                   /\ Done(page = "some", page = "some")
  /\ UNCHANGED << config, detector, pure, report, history,
                  vfile, sidecar, outfs, chap_out, cache,
                  phase, run, env, tasks, permits, chan, results, skipped,
                  quiet >>

\* "Mark as completed": the last mark and update; the result's status
\* becomes Completed.
MarkCompleted(p) ==
  /\ pc[p] = "fin"
  /\ MarkAndUpdate(p, st[p], "Completed", "send")
  /\ res' = [ res EXCEPT ![p].status = "Completed" ]
  /\ UNCHANGED << config, detector, pure, report, history,
                  vfile, sidecar, outfs, chapfile, chap_out,
                  cache, phase, run, env, tasks, permits, chan, results, calls, failed,
                  skipped, quiet >>

(* ------------------------ process_videos_parallel ---------------------- *)
\* tx.send(result).await on the channel of capacity max_concurrent; the
\* task then ends and its permit is dropped.
Send(p) ==
  /\ pc[p] = "send"
  /\ Len(chan) < workers
  /\ chan' = Append(chan, [ video |-> p, status |-> res[p].status ])
  /\ permits' = permits + 1
  /\ pc' = [ pc EXCEPT ![p] = "done" ]
  /\ UNCHANGED << config, detector, pure, report, history,
                  vfile, sidecar, outfs, chapfile, chap_out,
                  cache, phase, run, env, tasks, ret, st, res, results, calls, failed,
                  skipped, quiet >>

\* one turn of  while let Some(result) = rx.recv().await : an Ok result is
\* pushed, an Err is logged and dropped
Recv ==
  /\ chan # << >>
  /\ results' = IF Head(chan).status = "Err" THEN results
                ELSE Append(results, Head(chan))
  /\ chan' = Tail(chan)
  /\ UNCHANGED << config, detector, pure, report, history,
                  vfile, sidecar, outfs, chapfile, chap_out,
                  cache, phase, run, env, tasks, pc, ret, st, res, permits,
                  calls, failed, skipped, quiet >>

\* every sender is dropped and the channel drained: process_videos_parallel
\* returns and process_directory reports the results
FinishRun ==
  /\ phase = "running"
  /\ \A p \in tasks : pc[p] = "done"
  /\ chan = << >>
  /\ phase' = "idle"
  /\ quiet' = TRUE
  /\ report' = << ProcessingResult(results) >>
  /\ UNCHANGED << config, detector, pure, history, vfile, sidecar,
                  outfs, chapfile, chap_out, cache, run, env, tasks, pc, ret,
                  st, res, permits, chan, results, calls, failed, skipped >>

(* ------------------------------ environment ---------------------------- *)
Intervene ==
  /\ env < MaxEnv
  /\ env' = env + 1
  /\ quiet' = FALSE

\* the video file is rewritten between two runs (possibly left empty)
Touch(p) ==
  /\ phase = "idle"
  /\ run > 0
  /\ vfile[p].exists
  /\ vfile[p].mtime < MaxMtime
  /\ Intervene
  /\ \E size \in { 0, 1 } :
       vfile' = [ vfile EXCEPT ![p].mtime = @ + 1, ![p].size = size ]
  /\ UNCHANGED << config, detector, pure, report, history,
                  sidecar, outfs, chapfile, chap_out, cache,
                  phase, run, tasks, pc, ret, st, res, permits, chan, results,
                  calls, failed, skipped >>

\* the video file is removed between two runs
DeleteVideo(p) ==
  /\ phase = "idle"
  /\ run > 0
  /\ vfile[p].exists
  /\ Intervene
  /\ vfile' = [ vfile EXCEPT ![p].exists = FALSE ]
  /\ UNCHANGED << config, detector, pure, report, history,
                  sidecar, outfs, chapfile, chap_out, cache,
                  phase, run, tasks, pc, ret, st, res, permits, chan, results,
                  calls, failed, skipped >>

\* the video file is removed during a run, after discover_videos has listed
\* it and before its task has asked for its record
Vanish(p) ==
  /\ phase = "running"
  /\ p \in tasks
  /\ pc[p] \in { "spawned", "get_state" }
  /\ vfile[p].exists
  /\ Intervene
  /\ vfile' = [ vfile EXCEPT ![p].exists = FALSE ]
  /\ UNCHANGED << config, detector, pure, report, history,
                  sidecar, outfs, chapfile, chap_out, cache,
                  phase, run, tasks, pc, ret, st, res, permits, chan, results,
                  calls, failed, skipped >>

ResetChoices == { { "ChapterDetection" }, { "Transcription", "LLMCorrection" } }

\* Vec<ProcessingStage>::iter().min()
MinStage(S) == CHOOSE s \in S : \A t \in S : StageOrd(s) <= StageOrd(t)

\* StateManager::reset_stages, run between two runs by the cache manager on
\* a StateManager of its own (StateManager::new, then reset_stages)
ResetStages(p, stages_to_reset) ==
  /\ phase = "idle"
  /\ run > 0
  /\ vfile[p].exists
  /\ Intervene
  /\ LET cached == load_existing_states[generate_state_key(p)]
         state == IF cached # << >> /\ is_video_unchanged(p, cached[1])
                    THEN cached[1] ELSE create_new_state(p)
         reset == [ state EXCEPT
                      !.completed_stages = Retain(@, StageSet \ stages_to_reset),
                      !.current_stage = MinStage(stages_to_reset) ]
     IN sidecar' = [ sidecar EXCEPT ![sidecar_filename(p)] = OkFile(reset) ]
  /\ UNCHANGED << config, detector, pure, report, history,
                  vfile, outfs, chapfile, chap_out, cache,
                  phase, run, tasks, pc, ret, st, res, permits, chan, results,
                  calls, failed, skipped >>

\* BatchProcessor::reset_chapter_detection_state (--reset-chapters), run
\* between two runs on a StateManager of its own: every discovered video
\* whose record lists ChapterDetection has it removed, chapters_detected
\* cleared and the record saved.  The videos are visited one after the
\* other, so of two that share a sidecar file the last one's record stays.
\* The call is looked at only when it has something to reset.
reset_chapter_detection_state ==
  /\ phase = "idle"
  /\ run > 0
  /\ Intervene
  /\ LET loaded == load_existing_states
         state(p) ==
           LET cached == loaded[generate_state_key(p)]
           IN IF cached # << >> /\ is_video_unchanged(p, cached[1])
                THEN cached[1] ELSE create_new_state(p)
         reset(p) ==
           [ state(p) EXCEPT
               !.completed_stages = Retain(@, StageSet \ { "ChapterDetection" }),
               !.chapters_detected = << >> ]
         writers(f) ==
           { p \in discover_videos :
               /\ sidecar_filename(p) = f
               /\ "ChapterDetection" \in SeqToSet(state(p).completed_stages) }
     IN /\ \E f \in SidecarFiles : writers(f) # {}
        /\ \E last \in [ SidecarFiles -> AllVideos ] :
             /\ \A f \in SidecarFiles : writers(f) = {} \/ last[f] \in writers(f)
             /\ sidecar' = [ f \in SidecarFiles |->
                               IF writers(f) = {} THEN sidecar[f]
                               ELSE OkFile(reset(last[f])) ]
  /\ UNCHANGED << config, detector, pure, report, history,
                  vfile, outfs, chapfile, chap_out, cache,
                  phase, run, tasks, pc, ret, st, res, permits, chan, results,
                  calls, failed, skipped >>

\* StateManager::reset_all_stages, run between two runs by the cache manager
ResetAllStages(p) ==
  /\ phase = "idle"
  /\ run > 0
  /\ p \in videos
  /\ Intervene
  /\ sidecar' = [ sidecar EXCEPT ![sidecar_filename(p)] = AbsentFile ]
  /\ UNCHANGED << config, detector, pure, report, history,
                  vfile, outfs, chapfile, chap_out, cache,
                  phase, run, tasks, pc, ret, st, res, permits, chan, results,
                  calls, failed, skipped >>

\* the process is killed during a run: the tasks and the cache are gone,
\* the files stay as they are
Kill ==
  /\ phase = "running"
  /\ Intervene
  /\ phase' = "idle"
  /\ pc' = [ p \in AllVideos |-> "idle" ]
  /\ ret' = [ p \in AllVideos |-> "idle" ]
  /\ st' = [ p \in AllVideos |-> create_new_state(p) ]
  /\ res' = [ p \in AllVideos |-> NoResult ]
  /\ cache' = [ k \in Keys |-> << >> ]
  /\ permits' = workers
  /\ chan' = << >>
  /\ results' = << >>
  /\ calls' = [ p \in AllVideos |-> << >> ]
  /\ skipped' = [ p \in AllVideos |-> {} ]
  /\ failed' = [ p \in AllVideos |-> {} ]
  /\ UNCHANGED << config, detector, pure, report, history,
                  vfile, sidecar, outfs, chapfile, chap_out,
                  run, tasks >>

(* ---------------------------- specifications --------------------------- *)
Task(p) ==
  \/ Acquire(p)
  \/ GetOrCreate(p)
  \/ ProcessVideoAnalysis(p)
  \/ ProcessAudioExtraction(p)
  \/ ProcessTranscription(p)
  \/ ProcessLLMCorrection(p)
  \/ ProcessChapterDetection(p)
  \/ MarkCompleted(p)
  \/ UpdateCache(p)
  \/ SaveTruncate(p)
  \/ SaveWrite(p)
  \/ Send(p)

Next ==
  \/ StartRun
  \/ \E p \in AllVideos : Task(p)
  \/ Recv
  \/ FinishRun
  \/ \E p \in AllVideos : Touch(p)
  \/ \E p \in AllVideos : DeleteVideo(p)
  \/ \E p \in AllVideos : \E S \in ResetChoices : ResetStages(p, S)
  \/ \E p \in AllVideos : ResetAllStages(p)
  \/ reset_chapter_detection_state
  \/ Kill

Spec == Init /\ [][Next]_vars

NextPar ==
  \/ StartRun
  \/ \E p \in AllVideos : Task(p)
  \/ Recv
  \/ FinishRun

SpecPar == InitPar /\ [][NextPar]_vars

\* One video over the last two runs, with the video file possibly removed
\* between the scan and the start of its task.
InitVanish ==
  /\ InitWith({ P1 }, 1, MaxRuns - 2)
  /\ dirfiles[P1] = NoArtifacts
  /\ scandir = EmptyDirectory

NextVanish ==
  \/ Next
  \/ \E p \in AllVideos : Vanish(p)

SpecVanish == InitVanish /\ [][NextVanish]_vars

\* Stage 3 on a transcription with a segment that ends before it starts (a
\* whisper.cpp segment whose end timestamp does not parse ends at 0.0):
\* generate_srt_file panics in SRTGenerator::validate before any file is
\* written.  The spawned task unwinds: its permit and its sender are dropped
\* and no result is sent.
TranscriptionPanics(p) ==
  /\ pc[p] = "tr"
  /\ res[p].audio_info
  /\ ~ can_skip_stage(st[p], "Transcription")
  /\ Called(p, "transcribe")
  /\ Failed(p, "transcribe", TRUE)
  /\ permits' = permits + 1
  /\ pc' = [ pc EXCEPT ![p] = "done" ]
  /\ UNCHANGED << config, detector, pure, report, history,
                  vfile, sidecar, outfs, chapfile, chap_out, cache,
                  phase, run, env, tasks, ret, st, res, chan, results,
                  skipped, quiet >>

\* One run over two videos of different names in one directory, under a
\* runtime that lets every task that can take a step take one, lets the
\* collector receive when the channel holds a result, and lets
\* process_videos_parallel return once the channel has closed.
InitLive ==
  \E w \in 1 .. MaxWorkers :
    /\ InitWith({ P1, P4 }, w, MaxRuns - 1)
    /\ scandir = EmptyDirectory
    /\ pages_ok = FALSE
    /\ \A p \in AllVideos : dirfiles[p] = NoArtifacts

Fairness ==
  /\ \A p \in AllVideos : WF_vars(Task(p))
  /\ WF_vars(StartRun)
  /\ WF_vars(Recv)
  /\ WF_vars(FinishRun)

NextLive ==
  \/ NextPar
  \/ \E p \in AllVideos : TranscriptionPanics(p)

SpecLive == InitLive /\ [][NextLive]_vars /\ Fairness

(* ------------------------------- series -------------------------------- *)
\* BJJFanaticsScraper::scrape_chapters chooses where the chapters of a series
\* come from: the series chapter file of the video's directory, else the one
\* of the chapters directory, else the product page when product-pages.txt
\* names one.  The variant looks into the chapters directory first.
chapter_source_output_first(in_video_dir, in_output_dir, has_page) ==
  IF in_output_dir THEN "output_dir"
  ELSE IF in_video_dir THEN "video_dir"
  ELSE IF has_page THEN "fetch"
  ELSE "none"

chapter_source(in_video_dir, in_output_dir, has_page) ==
  IF in_video_dir THEN "video_dir"
  ELSE IF in_output_dir THEN "output_dir"
  ELSE IF has_page THEN "fetch"
  ELSE "none"

\* the end of stage 5: the chapter count is stored and the stage marked
DetectedChapters(p, found) ==
  /\ res' = [ res EXCEPT ![p].chapters = IF found THEN 1 ELSE 0 ]
  /\ MarkAndUpdate(p,
       [ st[p] EXCEPT !.chapters_detected = << IF found THEN 1 ELSE 0 >> ],
       "ChapterDetection", "fin")

\* Stage 5 up to the request for the product page: the two path.exists()
\* tests of scrape_chapters and the reading of the file that was found.
\* The source that was chosen is logged after the stage's name.
LookupChapters(p) ==
  /\ pc[p] = "cd"
  /\ LET source == chapter_source(chapfile[video_dir(p)], chap_out, pages_ok)
     IN /\ calls' = [ calls EXCEPT ![p] = @ \o << "chapter", source >> ]
        /\ IF source = "fetch"
             THEN /\ pc' = [ pc EXCEPT ![p] = "cd_fetch" ]
                  /\ UNCHANGED << st, ret, res >>
             ELSE DetectedChapters(p, source # "none")
  /\ UNCHANGED << config, detector, pure, report, history,
                  vfile, sidecar, outfs, chapfile, chap_out, cache,
                  phase, run, env, tasks, permits, chan, results, failed,
                  skipped, quiet >>

\* scrape_product_page(..).await returns and, when it brought chapters,
\* write_chapters_to_file puts the series file into the video's directory
FetchChapters(p) ==
  /\ pc[p] = "cd_fetch"
  /\ \E page \in { "fail", "empty", "some" } :
       /\ Failed(p, "fetch", page = "fail")
       /\ chapfile' = [ chapfile EXCEPT ![video_dir(p)] = @ \/ (page = "some") ]
       /\ DetectedChapters(p, page = "some")
  /\ UNCHANGED << config, detector, pure, report, history,
                  vfile, sidecar, outfs, chap_out, cache,
                  phase, run, env, tasks, permits, chan, results, calls,
                  skipped, quiet >>

TaskSeries(p) ==
  \/ Acquire(p)
  \/ GetOrCreate(p)
  \/ ProcessVideoAnalysis(p)
  \/ ProcessAudioExtraction(p)
  \/ ProcessTranscription(p)
  \/ ProcessLLMCorrection(p)
  \/ LookupChapters(p)
  \/ FetchChapters(p)
  \/ MarkCompleted(p)
  \/ UpdateCache(p)
  \/ SaveTruncate(p)
  \/ SaveWrite(p)
  \/ Send(p)

\* One run over two volumes of one series lying in one directory; a series
\* chapter file may already lie in the directory or in the chapters
\* directory.
InitSeries ==
  \E w \in 1 .. MaxWorkers :
    \E in_video_dir, in_output_dir \in BOOLEAN :
      /\ videos = { P1, P4 }
      /\ workers = w
      /\ llm_enabled = FALSE
      /\ pages_ok \in BOOLEAN
      /\ vfile = [ p \in AllVideos |->
                     [ exists |-> p \in { P1, P4 }, mtime |-> 0, size |-> 1 ] ]
      /\ dirfiles = [ p \in AllVideos |-> NoArtifacts ]
      /\ sidecar = [ f \in SidecarFiles |-> AbsentFile ]
      /\ outfs = [ s \in Stems |-> NoOutput ]
      /\ chapfile = [ d \in Dirs |-> d = video_dir(P1) /\ in_video_dir ]
      /\ chap_out = in_output_dir
      /\ cache = [ k \in Keys |-> << >> ]
      /\ phase = "idle"
      /\ run = MaxRuns - 1
      /\ env = 0
      /\ tasks = {}
      /\ pc = [ p \in AllVideos |-> "idle" ]
      /\ ret = [ p \in AllVideos |-> "idle" ]
      /\ st = [ p \in AllVideos |-> create_new_state(p) ]
      /\ res = [ p \in AllVideos |-> NoResult ]
      /\ permits = w
      /\ chan = << >>
      /\ results = << >>
      /\ calls = [ p \in AllVideos |-> << >> ]
      /\ skipped = [ p \in AllVideos |-> {} ]
      /\ failed = [ p \in AllVideos |-> {} ]
      /\ report = << >>
      /\ scandir = EmptyDirectory
      /\ detected = NotScanned
      /\ args = << >>
      /\ returned = << >>
      /\ startRec = [ p \in AllVideos |-> << >> ]
      /\ chapAtStart = [ p \in AllVideos |-> FALSE ]
      /\ quiet = FALSE
      /\ prevClean = FALSE
      /\ prevStatus = [ p \in AllVideos |-> "none" ]

NextSeries ==
  \/ StartRun
  \/ \E p \in AllVideos : TaskSeries(p)
  \/ Recv
  \/ FinishRun

SpecSeries == InitSeries /\ [][NextSeries]_vars

(* ------------------------------ detector ------------------------------- *)
\* The detector on its own: a directory holding the test's three videos, or
\* one video (under a supported or an unsupported extension, or none) with
\* any artifacts next to it.
InitDet ==
  /\ InitWith({ P1 }, 1, 0)
  /\ \/ scandir = TestDirectory
     \/ \E ext \in { "none", "mp4", "MP4", "M4V" } :
          \E wav, srt \in BOOLEAN :
            \E txt, corrected \in (0 - 1) .. MaxSize :
              scandir =
                [ EmptyDirectory EXCEPT
                    !["video1"] =
                       [ ext |-> ext,
                         a |-> [ wav |-> wav, txt |-> txt,
                                 corrected |-> corrected, srt |-> srt ] ] ]

\* a call of ArtifactDetector::scan_directory on the directory
ScanDirectory ==
  /\ detected' = scan_directory(scandir)
  /\ UNCHANGED << config, pure, scandir, report, history, vfile, sidecar, outfs,
                  chapfile, chap_out, cache, phase, run, env, tasks, pc, ret,
                  st, res, permits, chan, results, calls, failed, skipped,
                  quiet >>

NextDet == ScanDirectory

SpecDet == InitDet /\ [][NextDet]_vars

(* -------------------------- transcription worker ----------------------- *)
\* the directory built by test_worker_scan_for_work
WorkerTestDirectory ==
  [ s \in ScanStems |->
      CASE s = "video1" -> [ ext |-> "mp4", a |-> NoArtifacts ]
        [] s = "video2" -> [ ext |-> "mp4", a |-> [ NoArtifacts EXCEPT !.wav = TRUE ] ]
        [] OTHER -> [ ext |-> "none", a |-> NoArtifacts ] ]

\* the directory built by test_worker_skips_completed_videos: one video
\* with "mock transcript" in its .txt and "mock corrected" in its
\* _corrected.txt
CompletedDirectory ==
  [ EmptyDirectory EXCEPT
      !["video1"] =
         [ ext |-> "mp4",
           a |-> [ wav |-> TRUE, txt |-> Len("mock transcript"),
                   corrected |-> Len("mock corrected"), srt |-> TRUE ] ] ]

\* a worker that makes a work item of every scanned video
scan_for_work_unfiltered(videos_found) ==
  { [ video |-> s, current_stage |-> videos_found[s] ] :
      s \in { v \in ScanStems : videos_found[v] # "none" } }

\* TranscriptionWorker::scan_for_work over the scanned videos: a WorkItem
\* for each whose stage is not Completed
scan_for_work(videos_found) ==
  { [ video |-> s, current_stage |-> videos_found[s] ] :
      s \in { v \in ScanStems : videos_found[v] \notin { "none", "Completed" } } }

\* a worker on a directory of one of its tests, or holding one video
\* (under a supported or an unsupported extension, or none) with any
\* artifacts next to it
InitWorker ==
  /\ InitFiles({}, 1, 0)
  /\ llm_enabled = FALSE
  /\ pages_ok = FALSE
  /\ args = [ fn |-> "scan_for_work" ]
  /\ returned = << >>
  /\ \/ scandir \in { WorkerTestDirectory, CompletedDirectory }
     \/ \E ext \in { "none", "mp4", "MP4", "M4V" } :
          \E wav, srt \in BOOLEAN :
            \E txt, corrected \in (0 - 1) .. MaxSize :
              scandir =
                [ EmptyDirectory EXCEPT
                    !["video1"] =
                       [ ext |-> ext,
                         a |-> [ wav |-> wav, txt |-> txt,
                                 corrected |-> corrected, srt |-> srt ] ] ]

\* a call of TranscriptionWorker::scan_for_work
ScanForWork ==
  /\ returned = << >>
  /\ detected' = scan_directory(scandir)
  /\ returned' = << scan_for_work(scan_directory(scandir)) >>
  /\ UNCHANGED << config, args, scandir, report, history, vfile, sidecar,
                  outfs, chapfile, chap_out, cache, phase, run, env, tasks,
                  pc, ret, st, res, permits, chan, results, calls, failed,
                  skipped, quiet >>

NextWorker == ScanForWork
SpecWorker == InitWorker /\ [][NextWorker]_vars

(* ------------------------ worker per-video loop ------------------------ *)
\* ProcessingStage, in the order of its declaration
DetectorStages ==
  << "Pending", "AudioExtracted", "Transcribed", "LLMCorrected",
     "SubtitlesGenerated", "Completed" >>

stage_rank(s) == CHOOSE i \in DOMAIN DetectorStages : DetectorStages[i] = s

\* what the tools run by one arm of process_video's match can do:
\*   Pending         ffmpeg fails, or writes the .wav (and then the probe of
\*                   the new file succeeds or fails)
\*   AudioExtracted  the probe or whisper-cli fails; or the transcript of
\*                   `size` bytes is written and then the .srt is written
\*                   ("ok") or is not ("partial")
\*   Transcribed     without a corrector nothing happens; with one, the
\*                   corrected text of `size` bytes is written (no
\*                   replacement shortens the text, "gard" -> "guard" adds a
\*                   byte) or the call fails
\*   LLMCorrected    generate_subtitles does nothing and returns Ok
StageOutcomes(stage, corrector, a) ==
  CASE stage = "Pending" ->
         { [ kind |-> k, size |-> 0 ] : k \in { "ok", "partial", "failed" } }
    [] stage = "AudioExtracted" ->
         { [ kind |-> "failed", size |-> 0 ] }
         \cup { [ kind |-> k, size |-> n ] :
                  k \in { "ok", "partial" }, n \in 0 .. MaxSize }
    [] stage = "Transcribed" ->
         IF corrector
           THEN { [ kind |-> "failed", size |-> 0 ] }
                \cup { [ kind |-> "ok", size |-> n ] : n \in { a.txt, a.txt + 1 } }
           ELSE { [ kind |-> "skipped", size |-> 0 ] }
    [] OTHER -> { [ kind |-> "skipped", size |-> 0 ] }

\* the artifacts next to the video after the arm of the match, and whether
\* the arm returned an error
stage_effect(stage, o, a) ==
  CASE stage = "Pending" /\ o.kind # "failed" ->
         [ a |-> [ a EXCEPT !.wav = TRUE ], err |-> o.kind = "partial" ]
    [] stage = "AudioExtracted" /\ o.kind = "ok" ->
         [ a |-> [ a EXCEPT !.txt = o.size, !.srt = TRUE ], err |-> FALSE ]
    [] stage = "AudioExtracted" /\ o.kind = "partial" ->
         [ a |-> [ a EXCEPT !.txt = o.size ], err |-> TRUE ]
    [] stage = "Transcribed" /\ o.kind = "ok" ->
         [ a |-> [ a EXCEPT !.corrected = o.size ], err |-> FALSE ]
    [] OTHER -> [ a |-> a, err |-> o.kind = "failed" ]

\* a loop that goes round whatever the re-scan finds
stage_advanced_unchecked(stage, new_stage) == TRUE

\* the safety check of process_video: the loop goes round again only when
\* the re-scanned stage differs from the one the iteration started with
stage_advanced(stage, new_stage) == new_stage # stage

\* a worker in continuous mode, with or without a corrector, in dry-run mode
\* or not, on a directory holding one video with any artifacts next to it
InitLoop ==
  /\ InitFiles({}, 1, 0)
  /\ llm_enabled = FALSE
  /\ pages_ok = FALSE
  /\ returned = << >>
  /\ \E corrector, dry_run \in BOOLEAN :
       args = [ fn |-> "run_continuous_mode", video |-> "video1",
                corrector |-> corrector, dry_run |-> dry_run ]
  /\ \E wav, srt \in BOOLEAN :
       \E txt, corrected \in (0 - 1) .. MaxSize :
         scandir =
           [ EmptyDirectory EXCEPT
               !["video1"] =
                  [ ext |-> "mp4",
                    a |-> [ wav |-> wav, txt |-> txt,
                            corrected |-> corrected, srt |-> srt ] ] ]

\* run_continuous_mode at the head of its loop: get_next_batch scans the
\* directory; with no work the worker sleeps, else it calls process_video
\* on the video found
GetNextBatch ==
  /\ \/ args.fn \in { "run_continuous_mode", "sleep" }
     \/ args.fn = "process_video" /\ returned # << >>
  /\ detected' = scan_directory(scandir)
  /\ LET work == scan_for_work(scan_directory(scandir)) IN
       IF work = {}
         THEN args' = [ args EXCEPT !.fn = "sleep" ]
         ELSE \E w \in work :
                args' = [ args EXCEPT !.fn = "process_video", !.video = w.video ]
  /\ returned' = << >>
  /\ UNCHANGED << config, scandir, report, history, vfile, sidecar, outfs,
                  chapfile, chap_out, cache, phase, run, env, tasks, pc, ret,
                  st, res, permits, chan, results, calls, failed, skipped,
                  quiet >>

\* process_video in dry-run mode
DryRun ==
  /\ args.fn = "process_video"
  /\ returned = << >>
  /\ args.dry_run
  /\ returned' = << "Ok" >>
  /\ UNCHANGED << config, detector, args, report, history, vfile, sidecar,
                  outfs, chapfile, chap_out, cache, phase, run, env, tasks,
                  pc, ret, st, res, permits, chan, results, calls, failed,
                  skipped, quiet >>

\* one iteration of the loop of process_video: the arm for the stage cached
\* in current_video, the re-scan, and the safety check
ProcessStage ==
  /\ args.fn = "process_video"
  /\ returned = << >>
  /\ ~ args.dry_run
  /\ LET v == args.video
         stage == detected[v]
     IN IF stage \in { "SubtitlesGenerated", "Completed" }
          THEN /\ returned' = << "Ok" >>
               /\ UNCHANGED detector
          ELSE \E o \in StageOutcomes(stage, args.corrector, scandir[v].a) :
                 LET e == stage_effect(stage, o, scandir[v].a)
                     new_stage == detect_processing_stage(e.a)
                 IN /\ scandir' = [ scandir EXCEPT ![v].a = e.a ]
                    /\ IF e.err
                         THEN /\ returned' = << "Err" >>
                              /\ detected' = detected
                         ELSE /\ detected' = [ detected EXCEPT ![v] = new_stage ]
                              /\ returned' =
                                   IF stage_advanced(stage, new_stage) THEN << >>
                                   ELSE << "Ok" >>
  /\ UNCHANGED << config, args, report, history, vfile, sidecar, outfs,
                  chapfile, chap_out, cache, phase, run, env, tasks, pc, ret,
                  st, res, permits, chan, results, calls, failed, skipped,
                  quiet >>

NextLoop ==
  \/ GetNextBatch
  \/ DryRun
  \/ ProcessStage

\* the worker is a running task: an enabled step of it is taken
SpecLoop == InitLoop /\ [][NextLoop]_vars /\ WF_vars(NextLoop)

(* --------------------------- chapter slicing --------------------------- *)
\* longest chapter list drawn besides the example's
MaxChapters == 2

\* the timestamps chapters are drawn with, in seconds
ChapterTimes == { 0, 300, 700, 1300, 2100 }

\* a ChapterInfo of a given timestamp
Chapter(t) == [ title |-> "Armbar", timestamp |-> t ]

\* the series of the slicing example
ExampleChapters ==
  << Chapter(0), Chapter(300), Chapter(700), Chapter(1300), Chapter(2100) >>

ChapterLists ==
  { ExampleChapters } \cup
  UNION { [ 1 .. n -> { Chapter(t) : t \in ChapterTimes } ] : n \in 0 .. MaxChapters }

\* durations of a single video, in seconds
VideoDurations == { 0, 1200, 2400 }

\* Vec::sort_by on the timestamp (a stable sort): insertion of c behind
\* the chapters that are not later than it
InsertByTimestamp(sorted, c) ==
  LET before == SelectSeq(sorted, LAMBDA x : x.timestamp <= c.timestamp)
      after == SelectSeq(sorted, LAMBDA x : x.timestamp > c.timestamp)
  IN before \o << c >> \o after

RECURSIVE SortByTimestamp(_)
SortByTimestamp(chapters) ==
  IF chapters = << >> THEN << >>
  ELSE InsertByTimestamp(SortByTimestamp(SubSeq(chapters, 1, Len(chapters) - 1)),
                         chapters[Len(chapters)])

Min(a, b) == IF a <= b THEN a ELSE b

\* (a / b).ceil() for a >= 0, b > 0
CeilDiv(a, b) == (a + b - 1) \div b

\* BJJFanaticsScraper::calculate_video_boundaries
calculate_video_boundaries(chapters, single_video_duration) ==
  IF chapters = << >> \/ single_video_duration <= 0 THEN << >>
  ELSE
    LET sorted_chapters == SortByTimestamp(chapters)
        max_timestamp == sorted_chapters[Len(sorted_chapters)].timestamp
        estimated_video_count == CeilDiv(max_timestamp, single_video_duration)
    IN IF max_timestamp <= single_video_duration
         THEN << [ volume |-> 1, start_time |-> 0,
                   end_time |-> single_video_duration ] >>
         ELSE [ v \in 1 .. estimated_video_count |->
                  [ volume |-> v,
                    start_time |-> (v - 1) * single_video_duration,
                    end_time |-> Min(v * single_video_duration, max_timestamp) ] ]

\* BJJFanaticsScraper::extract_chapters_for_boundary
extract_chapters_for_boundary(chapters, boundary) ==
  LET within == SelectSeq(chapters, LAMBDA c :
                  c.timestamp >= boundary.start_time /\ c.timestamp < boundary.end_time)
  IN SortByTimestamp(
       [ i \in DOMAIN within |->
           [ within[i] EXCEPT !.timestamp = @ - boundary.start_time ] ])

\* BJJFanaticsScraper::filter_chapters_by_duration
filter_chapters_by_duration(chapters, max_duration) ==
  SelectSeq(chapters, LAMBDA c : c.timestamp <= max_duration)

\* BJJFanaticsScraper::map_chapters_to_video; volume_number is an Option
map_chapters_to_video(all_chapters, video_duration_seconds, volume_number) ==
  IF all_chapters = << >> THEN << >>
  ELSE
    LET volume == IF volume_number = << >> THEN 1 ELSE volume_number[1]
        video_boundaries ==
          calculate_video_boundaries(all_chapters, video_duration_seconds)
    IN IF video_boundaries = << >>
         THEN filter_chapters_by_duration(all_chapters, video_duration_seconds)
       ELSE IF volume \in DOMAIN video_boundaries
         THEN extract_chapters_for_boundary(all_chapters, video_boundaries[volume])
       ELSE filter_chapters_by_duration(all_chapters, video_duration_seconds)

\* the calls of map_chapters_to_video that are looked at
MapArgs ==
  [ fn : { "map_chapters_to_video" }, all_chapters : ChapterLists,
    video_duration_seconds : VideoDurations,
    volume_number : { << >>, << 1 >>, << 2 >>, << 3 >> } ]

\* nothing but the call is under way
InitCall(calls_looked_at) ==
  /\ InitFiles({}, 1, 0)
  /\ llm_enabled = FALSE
  /\ pages_ok = FALSE
  /\ scandir = EmptyDirectory
  /\ args \in calls_looked_at
  /\ returned = << >>

\* the rest of the state, which a function called on its own leaves alone
Elsewhere ==
  << config, detector, report, history, vfile, sidecar, outfs, chapfile,
     chap_out, cache, phase, run, env, tasks, pc, ret, st, res, permits,
     chan, results, calls, failed, skipped, quiet >>

MapChaptersToVideo ==
  /\ args.fn = "map_chapters_to_video"
  /\ returned = << >>
  /\ returned' = << map_chapters_to_video(args.all_chapters,
                       args.video_duration_seconds, args.volume_number) >>
  /\ UNCHANGED << args, Elsewhere >>

InitSlicing == InitCall(MapArgs)
NextSlicing == MapChaptersToVideo
SpecSlicing == InitSlicing /\ [][NextSlicing]_vars

(* -------------------------- chapter validation ------------------------- *)
\* "Timestamps should be reasonable (0-10800 seconds = 3 hours max)"
MaxTimestamp == 10800

\* "Within 5 seconds"
DuplicateWindow == 5

\* "Skip chapters with very short titles"
MinTitleLen == 3

\* titles holding HTML or JavaScript, as a page's text may yield them
MarkupTitles == { "<div>Armbar</div>" }

\* the scraper's test of one chapter: title.len() > 200 or a marker of
\* JavaScript or HTML in the title, or a timestamp outside 0 .. 10800
is_reasonable(chapter) ==
  /\ Len(chapter.title) <= 200
  /\ chapter.title \notin MarkupTitles
  /\ chapter.timestamp >= 0
  /\ chapter.timestamp <= MaxTimestamp

\* BJJFanaticsScraper::validate_chapters
scraper_validate_chapters(chapters) ==
  /\ chapters # << >>
  /\ \A i \in DOMAIN chapters : is_reasonable(chapters[i])

\* BJJFanaticsScraper::scrape_chapters as far as the list goes: a list read
\* from a series chapter file is returned as parse_chapters_file_content
\* read it; a list extracted from the product page is returned when
\* validate_chapters accepts it, and nothing is returned otherwise
scrape_chapters(source, chapters) ==
  IF source = "file" THEN chapters
  ELSE IF scraper_validate_chapters(chapters) THEN chapters
  ELSE << >>

\* ChapterDetector::detect_chapters: the scraper's list as it is
detect_chapters(source, chapters) == scrape_chapters(source, chapters)

Abs(x) == IF x < 0 THEN 0 - x ELSE x

\* the removal of duplicates in validate_chapters: a chapter is kept unless
\* a chapter kept before it lies within the window
RECURSIVE Dedup(_, _)
Dedup(kept, rest) ==
  IF rest = << >> THEN kept
  ELSE LET chapter == Head(rest)
           is_duplicate ==
             \E i \in DOMAIN kept :
               Abs(kept[i].timestamp - chapter.timestamp) < DuplicateWindow
       IN Dedup(IF is_duplicate THEN kept ELSE Append(kept, chapter), Tail(rest))

\* ChapterDetector::validate_chapters
validate_chapters(chapters, video_duration) ==
  LET valid_chapters ==
        SelectSeq(chapters, LAMBDA c :
          /\ ~ (c.timestamp > video_duration)
          /\ ~ (c.timestamp < 0)
          /\ ~ (Len(c.title) < MinTitleLen))
  IN Dedup(<< >>, SortByTimestamp(valid_chapters))

\* Stage 5 as far as the list goes: result.chapters
stage5_chapters(source, chapters, video_duration) ==
  LET detected_chapters == detect_chapters(source, chapters)
  IN IF detected_chapters # << >>
       THEN validate_chapters(detected_chapters, video_duration)
       ELSE << >>

\* the chapters a file or a page is drawn with
FoundChapters ==
  [ title : { "Armbar", "No" } \cup MarkupTitles,
    timestamp : { 0, 2, 5, MaxTimestamp, MaxTimestamp + DuplicateWindow } ]

DetectArgs(max_chapters) ==
  [ fn : { "detect_chapters" }, source : { "file", "page" },
    chapters : UNION { [ 1 .. n -> FoundChapters ] : n \in 0 .. max_chapters },
    video_duration : { 1200, MaxTimestamp, MaxTimestamp + 1200 } ]

\* Stage 5 of a video whose series chapters come from args.source
DetectChapters ==
  /\ args.fn = "detect_chapters"
  /\ returned = << >>
  /\ returned' = << stage5_chapters(args.source, args.chapters,
                                    args.video_duration) >>
  /\ UNCHANGED << args, Elsewhere >>

InitExtract == InitCall(DetectArgs(MaxChapters))
NextExtract == DetectChapters
SpecExtract == InitExtract /\ [][NextExtract]_vars

(* ---------------------------- chapter cache --------------------------- *)
\* ChapterCacheManager::new(cli.cache_dir, 24): the TTL in hours
CacheTtlHours == 24

\* oldest cache looked at, in hours
MaxAgeHours == 25

SecondsPerHour == 3600

\* a cache file written by save_cached_chapters at time timestamp
CacheFile(timestamp) ==
  [ state |-> "ok",
    cache |-> << [ timestamp |-> timestamp, cache_key |-> "series",
                   chapters |-> ExampleChapters ] >> ]

NoCacheFile == [ state |-> "absent", cache |-> << >> ]
GarbledCacheFile == [ state |-> "garbled", cache |-> << >> ]

\* a test that still accepts a cache whose age equals the TTL
is_cache_valid_inclusive(cached, now, cache_ttl_hours) ==
  LET cache_age_hours == (now - cached.timestamp) \div SecondsPerHour
  IN cache_age_hours <= cache_ttl_hours

\* ChapterCacheManager::is_cache_valid
is_cache_valid(cached, now, cache_ttl_hours) ==
  LET cache_age_hours == (now - cached.timestamp) \div SecondsPerHour
  IN cache_age_hours < cache_ttl_hours

\* ChapterCacheManager::load_cached_chapters: the Option it returns and the
\* file it leaves at cache_path
load_cached_chapters(file, now, cache_ttl_hours) ==
  IF file.state = "absent"
    THEN [ result |-> << >>, cache_path |-> file ]
  ELSE IF file.state = "garbled"
    THEN [ result |-> << >>, cache_path |-> file ]
  ELSE IF is_cache_valid(file.cache[1], now, cache_ttl_hours)
    THEN [ result |-> file.cache, cache_path |-> file ]
  ELSE [ result |-> << >>, cache_path |-> NoCacheFile ]

\* the times of day, in seconds, at which a cache is written
WriteTimes == { 0, 1 }

\* the ages, in seconds, at which a cache is read: every full hour up to
\* MaxAgeHours, and the last second before the next one
ReadAges ==
  { h * SecondsPerHour + r : h \in 0 .. MaxAgeHours, r \in { 0, SecondsPerHour - 1 } }

\* the reads looked at: the clock (u64 seconds) is not before the time
\* at which the cache was written
LoadArgs ==
  LET calls_drawn ==
        { [ fn |-> "load_cached_chapters", file |-> f, now |-> n,
            cache_ttl_hours |-> ttl ] :
            f \in { NoCacheFile, GarbledCacheFile } \cup
                  { CacheFile(t) : t \in WriteTimes },
            n \in { t + age : t \in WriteTimes, age \in ReadAges },
            ttl \in { 1, CacheTtlHours } }
  IN { c \in calls_drawn :
         c.file.state = "ok" => c.now >= c.file.cache[1].timestamp }

\* a read of the series cache
LoadCachedChapters ==
  /\ args.fn = "load_cached_chapters"
  /\ returned = << >>
  /\ returned' = << load_cached_chapters(args.file, args.now, args.cache_ttl_hours) >>
  /\ UNCHANGED << args, Elsewhere >>

InitCache == InitCall(LoadArgs)
NextCache == LoadCachedChapters
SpecCache == InitCache /\ [][NextCache]_vars

(* --------------------------- text replacement -------------------------- *)
\* longest text corrected
MaxText == 3

\* longest original of a replacement; a replacement text is shorter
MaxPiece == 2

\* the characters of the texts
Alphabet == { "a", "b" }

\* the texts of n to m characters
Texts(n, m) == UNION { [ 1 .. k -> Alphabet ] : k \in n .. m }

\* the TextReplacement values looked at; original is not empty
TextReplacements(max_piece) ==
  [ original : Texts(1, max_piece), replacement : Texts(0, max_piece - 1) ]

\* str::replace: every match of from, found from the left and not
\* overlapping an earlier one, becomes to
RECURSIVE replace(_, _, _)
replace(text, from, to) ==
  IF Len(text) < Len(from) THEN text
  ELSE IF SubSeq(text, 1, Len(from)) = from
    THEN to \o replace(SubSeq(text, Len(from) + 1, Len(text)), from, to)
  ELSE << Head(text) >> \o replace(Tail(text), from, to)

\* sort_by(|a, b| b.original.len().cmp(&a.original.len())), a stable sort:
\* r goes behind the replacements whose original is not shorter
InsertByLength(sorted, r) ==
  LET before == SelectSeq(sorted, LAMBDA x : Len(x.original) >= Len(r.original))
      after == SelectSeq(sorted, LAMBDA x : Len(x.original) < Len(r.original))
  IN before \o << r >> \o after

RECURSIVE SortByLength(_)
SortByLength(replacements) ==
  IF replacements = << >> THEN << >>
  ELSE InsertByLength(SortByLength(SubSeq(replacements, 1, Len(replacements) - 1)),
                      replacements[Len(replacements)])

\* the loop of apply_text_replacements over the sorted replacements
RECURSIVE ReplaceEach(_, _)
ReplaceEach(text, sorted_replacements) ==
  IF sorted_replacements = << >> THEN text
  ELSE ReplaceEach(replace(text, Head(sorted_replacements).original,
                           Head(sorted_replacements).replacement),
                   Tail(sorted_replacements))

\* the replacements applied in the order of the list
apply_text_replacements_unsorted(text, replacements) ==
  ReplaceEach(text, replacements)

\* llm::correction::apply_text_replacements
apply_text_replacements(text, replacements) ==
  ReplaceEach(text, SortByLength(replacements))

ApplyArgs(max_text, max_piece) ==
  [ fn : { "apply_text_replacements" }, text : Texts(0, max_text),
    replacements :
      UNION { [ 1 .. n -> TextReplacements(max_piece) ] : n \in 0 .. 2 } ]

\* the list applied to the text, and once more to the corrected text
ApplyTextReplacements ==
  /\ args.fn = "apply_text_replacements"
  /\ returned = << >>
  /\ LET corrected_text == apply_text_replacements(args.text, args.replacements)
     IN returned' =
          << [ once |-> corrected_text,
               twice |-> apply_text_replacements(corrected_text, args.replacements) ] >>
  /\ UNCHANGED << args, Elsewhere >>

InitApply == InitCall(ApplyArgs(MaxText, MaxPiece))
NextApply == ApplyTextReplacements
SpecApply == InitApply /\ [][NextApply]_vars

(* ------------------------------ subtitles ------------------------------ *)
\* most segments or entries of a call
MaxSegments == 2

\* Duration::from_millis(100), in milliseconds
ShortDuration == 100

\* Duration::from_secs(30), in milliseconds
LongDuration == 30000

\* the times, in milliseconds, segments and entries are drawn with
SrtTimes == { 0, 50, 5000, 40000 }

\* the texts they are drawn with
SrtTexts == { "", " ", "Invalid" }

\* str::trim
trim(text) == IF text = " " THEN "" ELSE text

\* SRTEntry::new
SRTEntry(index, start, end, text) ==
  [ index |-> index, start |-> start, end |-> end, text |-> trim(text) ]

\* entries.sort_by(|a, b| a.start.cmp(&b.start)), a stable sort
InsertByStart(sorted, e) ==
  LET before == SelectSeq(sorted, LAMBDA x : x.start <= e.start)
      after == SelectSeq(sorted, LAMBDA x : x.start > e.start)
  IN before \o << e >> \o after

RECURSIVE SortByStart(_)
SortByStart(entries) ==
  IF entries = << >> THEN << >>
  ELSE InsertByStart(SortByStart(SubSeq(entries, 1, Len(entries) - 1)),
                     entries[Len(entries)])

\* SRTGenerator::sort_entries: sorted by start and re-indexed from 1
sort_entries(entries) ==
  LET sorted == SortByStart(entries)
  IN [ i \in DOMAIN sorted |-> [ sorted[i] EXCEPT !.index = i ] ]

\* an issue of validate: the entries it names and what it says
Issue(at, what) == [ at |-> at, issue |-> what ]

\* the issues validate pushes for entry i, in its order
EntryIssues(i, entry) ==
  LET duration == entry.end - entry.start
  IN ( IF entry.end <= entry.start
         THEN << Issue(<< i >>, "End time is not after start time") >>
         ELSE << >> )
     \o ( IF trim(entry.text) = ""
            THEN << Issue(<< i >>, "Empty text") >> ELSE << >> )
     \o ( IF duration < ShortDuration
            THEN << Issue(<< i >>, "Very short duration") >> ELSE << >> )
     \o ( IF duration > LongDuration
            THEN << Issue(<< i >>, "Very long duration") >> ELSE << >> )

RECURSIVE IssuesUpTo(_, _)
IssuesUpTo(entries, n) ==
  IF n = 0 THEN << >>
  ELSE IssuesUpTo(entries, n - 1) \o EntryIssues(n, entries[n])

RECURSIVE OverlapsUpTo(_, _)
OverlapsUpTo(entries, n) ==
  IF n = 0 THEN << >>
  ELSE OverlapsUpTo(entries, n - 1)
       \o ( IF entries[n].end > entries[n + 1].start
              THEN << Issue(<< n, n + 1 >>, "Overlapping timestamps") >>
              ELSE << >> )

\* SRTGenerator::validate.  entry.end - entry.start is a subtraction of
\* Durations, which panics when the end lies before the start.
validate(entries) ==
  IF \E i \in DOMAIN entries : entries[i].end < entries[i].start
    THEN [ panicked |-> TRUE, issues |-> << >> ]
    ELSE [ panicked |-> FALSE,
           issues |-> IssuesUpTo(entries, Len(entries))
                      \o ( IF entries = << >> THEN << >>
                            ELSE OverlapsUpTo(entries, Len(entries) - 1) ) ]

\* WhisperTranscriber::generate_srt_file: the entries of the segments
\* that have text, sorted, validated and saved; srt is the file written
generate_srt_file(segments) ==
  LET spoken == SelectSeq(segments, LAMBDA g : trim(g.text) # "")
      entries == sort_entries(
                   [ i \in DOMAIN spoken |->
                       SRTEntry(spoken[i].id + 1, spoken[i].start,
                                spoken[i].end, spoken[i].text) ])
      validation == validate(entries)
  IN IF validation.panicked
       THEN [ panicked |-> TRUE, issues |-> << >>, srt |-> << >> ]
       ELSE [ panicked |-> FALSE, issues |-> validation.issues,
              srt |-> << entries >> ]

\* the segments of a transcription: numbered from 0 in their order
\* the entries of test_validation: one from 10 s to 5 s, one from 15 s to
\* 20 s with no text
TestEntries ==
  << SRTEntry(1, 10000, 5000, "Invalid"), SRTEntry(2, 15000, 20000, "") >>

SegmentLists(max_segments) ==
  UNION { { [ i \in 1 .. n |->
                [ id |-> i - 1, start |-> g[i].start, end |-> g[i].end,
                  text |-> g[i].text ] ] :
              g \in [ 1 .. n -> [ start : SrtTimes, end : SrtTimes, text : SrtTexts ] ] } :
          n \in 0 .. max_segments }

\* the entries given to add_entry: numbered from 1 by the caller
EntryLists(max_segments) ==
  { TestEntries } \cup
  UNION { { [ i \in 1 .. n |-> SRTEntry(i, g[i].start, g[i].end, g[i].text) ] :
              g \in [ 1 .. n -> [ start : SrtTimes, end : SrtTimes, text : SrtTexts ] ] } :
          n \in 0 .. max_segments }

SrtArgs(max_segments) ==
  [ fn : { "generate_srt_file" }, segments : SegmentLists(max_segments) ]
  \cup [ fn : { "validate" }, entries : EntryLists(max_segments) ]

GenerateSrtFile ==
  /\ args.fn = "generate_srt_file"
  /\ returned = << >>
  /\ returned' = << generate_srt_file(args.segments) >>
  /\ UNCHANGED << args, Elsewhere >>

Validate ==
  /\ args.fn = "validate"
  /\ returned = << >>
  /\ returned' = << validate(args.entries) >>
  /\ UNCHANGED << args, Elsewhere >>

InitSrt == InitCall(SrtArgs(MaxSegments))
NextSrt == GenerateSrtFile \/ Validate
SpecSrt == InitSrt /\ [][NextSrt]_vars

(* -------------------------- filename classifier ------------------------ *)
\* a filename is the sequence of its characters
Uppercase ==
  { "A", "B", "C", "D", "E", "F", "G", "H", "I", "J", "K", "L", "M", "N",
    "O", "P", "Q", "R", "S", "T", "U", "V", "W", "X", "Y", "Z" }
Lowercase ==
  { "a", "b", "c", "d", "e", "f", "g", "h", "i", "j", "k", "l", "m", "n",
    "o", "p", "q", "r", "s", "t", "u", "v", "w", "x", "y", "z" }
Numeric == { "0", "1", "2", "3", "4", "5", "6", "7", "8", "9" }

\* the value of a decimal digit
DigitValue(c) == CHOOSE d \in 0 .. 9 : << "0", "1", "2", "3", "4", "5", "6", "7", "8", "9" >>[d + 1] = c

\* the pieces the filenames are put together from
DirectoryPrefixes == { << >>, << "T", "e", "s", "t", "F", "i", "l", "e", "s", "2", "_" >> }
SeriesParts ==
  { << "C", "l", "o", "s", "e", "d", "G", "u", "a", "r", "d", "R", "e", "i", "n", "t", "r", "o", "d", "u", "c", "e", "d" >>,
    << "C", "l", "o", "s", "e", "d", "G", "u", "a", "r", "d" >>,
    << "J", "u", "s", "t", "S", "t", "a", "n", "d", "U", "p" >>,
    << "S", "t", "a", "n", "d", "b", "y", "A", "r", "m", "b", "a", "r" >> }
Separators == { << >>, << "b", "y" >>, << "B", "y" >> }
InstructorParts ==
  { << "A", "d", "a", "m", "W", "a", "r", "d", "z", "i", "n", "s", "k", "i" >>,
    << "C", "r", "a", "i", "g", "J", "o", "n", "e", "s" >> }
PartDigits == { << >>, << "1" >>, << "3" >>, << "1", "2" >> }
Extensions == { << >>, << ".", "m", "p", "4" >>, << ".", "m", "k", "v" >> }

Filenames ==
  { d \o s \o b \o i \o n \o e :
      d \in DirectoryPrefixes, s \in SeriesParts, b \in Separators,
      i \in InstructorParts, n \in PartDigits, e \in Extensions }

\* the filename with nothing taken off its front
keep_directory_prefix(filename) == filename

\* filename.split('_').skip(1).join("_") when the filename holds an
\* underscore: what follows the first underscore
strip_directory_prefix(filename) ==
  IF \E k \in DOMAIN filename : filename[k] = "_"
  THEN LET first == CHOOSE k \in DOMAIN filename :
                      /\ filename[k] = "_"
                      /\ \A j \in 1 .. k - 1 : filename[j] # "_"
       IN SubSeq(filename, first + 1, Len(filename))
  ELSE filename

\* the four replace calls that take the extension off
strip_extension(basename) ==
  replace(replace(replace(replace(basename, << ".", "m", "p", "4" >>, << >>),
                          << ".", "a", "v", "i" >>, << >>),
                  << ".", "m", "k", "v" >>, << >>),
          << ".", "m", "o", "v" >>, << >>)

\* basename.match_indices("by")
by_positions(basename) ==
  { k \in 1 .. Len(basename) - 1 : basename[k] = "b" /\ basename[k + 1] = "y" }

\* the test of a "by" as separator: the character before it (the "b" itself
\* when it opens the name, by saturating_sub) is lowercase or no letter, the
\* character after it is uppercase
valid_separator(basename, by_pos) ==
  LET before_char == basename[IF by_pos = 1 THEN 1 ELSE by_pos - 1]
  IN /\ before_char \in Lowercase \/ before_char \notin Uppercase \cup Lowercase
     /\ by_pos + 2 <= Len(basename)
     /\ basename[by_pos + 2] \in Uppercase

\* the trailing digits of a text
RECURSIVE trailing_digits(_)
trailing_digits(text) ==
  IF text = << >> \/ text[Len(text)] \notin Numeric THEN << >>
  ELSE trailing_digits(SubSeq(text, 1, Len(text) - 1)) \o << text[Len(text)] >>

\* trim_end_matches(char::is_numeric)
trim_end_numeric(text) == SubSeq(text, 1, Len(text) - Len(trailing_digits(text)))

\* str::parse::<u32>().ok() of a text of digits (none of the numbers looked
\* at reaches 2^32)
RECURSIVE parse_digits(_)
parse_digits(digits) ==
  IF digits = << >> THEN 0
  ELSE 10 * parse_digits(SubSeq(digits, 1, Len(digits) - 1))
         + DigitValue(digits[Len(digits)])

parse_u32(digits) == IF digits = << >> THEN << >> ELSE << parse_digits(digits) >>

\* camel_case_to_readable: a space before every uppercase character but
\* the first character
RECURSIVE camel_case_to_readable(_)
camel_case_to_readable(input) ==
  IF input = << >> THEN << >>
  ELSE LET front == camel_case_to_readable(SubSeq(input, 1, Len(input) - 1))
           ch == input[Len(input)]
       IN IF ch \in Uppercase /\ front # << >> THEN front \o << " ", ch >>
          ELSE front \o << ch >>

\* a ParsedFilename; each field is an Option
ParsedFilename(instructor, series_name, part_number) ==
  [ instructor |-> instructor, series_name |-> series_name,
    part_number |-> part_number ]

\* llm::filename_parsing::fallback_regex_parsing
fallback_regex_parsing(filename) ==
  LET basename == strip_extension(strip_directory_prefix(filename))
      separators == { k \in by_positions(basename) : valid_separator(basename, k) }
  IN IF separators # {}
     THEN LET by_pos == CHOOSE k \in separators : \A j \in separators : k <= j
              series_part == SubSeq(basename, 1, by_pos - 1)
              instructor_part == SubSeq(basename, by_pos + 2, Len(basename))
          IN ParsedFilename(
               << camel_case_to_readable(trim_end_numeric(instructor_part)) >>,
               << camel_case_to_readable(series_part) >>,
               parse_u32(trailing_digits(instructor_part)))
     ELSE ParsedFilename(<< >>, << camel_case_to_readable(basename) >>, << >>)

ParseArgs == [ fn : { "fallback_regex_parsing" }, filename : Filenames ]

\* a call of fallback_regex_parsing
FallbackRegexParsing ==
  /\ args.fn = "fallback_regex_parsing"
  /\ returned = << >>
  /\ returned' = << fallback_regex_parsing(args.filename) >>
  /\ UNCHANGED << args, Elsewhere >>

InitParse == InitCall(ParseArgs)
NextParse == FallbackRegexParsing
SpecParse == InitParse /\ [][NextParse]_vars

(* ------------------------------- claims -------------------------------- *)
Adapters == { "probe", "extract", "transcribe", "llm", "fetch" }
IsAdapter(c) == c \in Adapters
IsStageCall(c) == c # "fetch"

\* the external adapters a video's task has invoked in this run, in order
ExternalCalls(p) == SelectSeq(calls[p], IsAdapter)
\* the same without the page fetch made inside chapter detection
StageCalls(p) == SelectSeq(calls[p], IsStageCall)

Completed(r) == SeqToSet(r.completed_stages)
SidecarOf(p) == sidecar[sidecar_filename(p)]

\* the task has not yet read its record
Unstarted(p) == pc[p] \in { "idle", "spawned", "get_state" }
\* the task is past the stage whose action leaves it at pc value after
PastStage(p, after) ==
  \/ pc[p] \in after
  \/ pc[p] \in { "upd_cache", "upd_trunc", "upd_write" } /\ ret[p] \in after

Successors(s) ==
  { next_stage(s) } \cup
  IF next_stage(s) = "AudioEnhancement" THEN { next_stage(next_stage(s)) } ELSE {}

IsSorted(stages) ==
  \A i, j \in DOMAIN stages : i < j => StageOrd(stages[i]) < StageOrd(stages[j])

MaxStage(stages) ==
  IF stages = << >> THEN "Pending"
  ELSE CHOOSE s \in SeqToSet(stages) :
         \A t \in SeqToSet(stages) : StageOrd(t) <= StageOrd(s)

\* C2: in every record persisted to a sidecar, completed_stages is in stage
\* order and current_stage is the successor of its maximum, or Error (or
\* Pending when nothing is completed).
C2_CurrentIsSuccessor ==
  \A f \in SidecarFiles :
    sidecar[f].state = "ok" =>
      LET r == sidecar[f].rec[1]
      IN /\ IsSorted(r.completed_stages)
         /\ \/ r.current_stage = "Error"
            \/ r.completed_stages = << >> /\ r.current_stage = "Pending"
            \/ /\ r.completed_stages # << >>
               /\ r.current_stage \in Successors(MaxStage(r.completed_stages))

\* a run is under way and the record loaded for p when it started carries
\* another modification time than the video file has
Stale(p) ==
  /\ phase = "running"
  /\ startRec[p] # << >>
  /\ startRec[p][1].video_modified # vfile[p].mtime

\* C3: when the source file's modification time differs from the recorded
\* one, get_or_create_state rebuilds the record from Pending with the current
\* modification time, and the run skips no stage: the probe is invoked
\* first, and a run that completes has invoked the extraction, the
\* transcription of the extracted audio, the LLM on the transcript (when
\* enabled) and the chapter detection.
C3_StaleRebuilt ==
  \A p \in tasks :
    Stale(p) =>
      /\ pc[p] = "va" =>
           /\ st[p].completed_stages = << >>
           /\ st[p].current_stage = "Pending"
           /\ st[p].video_modified = vfile[p].mtime
      /\ skipped[p] = {}
      /\ PastStage(p, { "ae", "tr", "llm", "cd", "fin", "send", "done" }) =>
           calls[p] # << >> /\ Head(calls[p]) = "probe"
      /\ pc[p] = "done" /\ res[p].status = "Completed" =>
           /\ "extract" \in SeqToSet(calls[p])
           /\ res[p].audio_info => "transcribe" \in SeqToSet(calls[p])
           /\ res[p].text # "none" /\ llm_enabled => "llm" \in SeqToSet(calls[p])
           /\ "chapter" \in SeqToSet(calls[p])

C3_Witness ==
  /\ Stale(P1)
  /\ "Completed" \in Completed(startRec[P1][1])
  /\ pc[P1] = "done"
  /\ res[P1].status = "Completed"
  /\ StageCalls(P1) = << "probe", "extract", "transcribe", "chapter" >>

InUpdate(p) == pc[p] \in { "upd_cache", "upd_trunc", "upd_write" }

\* C4: while two tasks are in update on the same StateRecord, one of them
\* waits for the other's write, and the sidecar holds one complete record
\* (or does not exist yet).
C4_ConcurrentUpdateAtomic ==
  \A p, q \in tasks :
    /\ p # q
    /\ generate_state_key(p) = generate_state_key(q)
    /\ InUpdate(p)
    /\ InUpdate(q)
    => /\ SidecarOf(p).state \in { "absent", "ok" }
       /\ ~ (pc[p] = "upd_write" /\ pc[q] = "upd_write")

\* C5: no two tasks have the same sidecar file open for writing at the
\* same time.
C5_OneWriterPerSidecar ==
  \A p, q \in tasks :
    p # q /\ sidecar_filename(p) = sidecar_filename(q)
    => ~ (pc[p] = "upd_write" /\ pc[q] = "upd_write")

InFlight == { p \in tasks : pc[p] \notin { "idle", "spawned", "done" } }

\* C6: at most `workers` videos are in flight, every video in flight holds
\* exactly one permit from acquiring it until its result is sent, and all
\* permits are available while no video is in flight.
C6_PermitBound ==
  /\ Cardinality(InFlight) <= workers
  /\ permits >= 0
  /\ permits + Cardinality(InFlight) = workers

C6_Witness ==
  /\ workers = 1
  /\ permits = 0
  /\ \E p, q \in tasks : pc[p] = "upd_write" /\ ret[p] = "send" /\ pc[q] = "spawned"

\* the completed stages of p's record as its task knows them: those of the
\* record loaded when the run started until the task has read its record,
\* those of the task's own record afterwards
Known(p) ==
  IF Unstarted(p)
    THEN IF startRec[p] = << >> THEN {} ELSE Completed(startRec[p][1])
    ELSE Completed(st[p])

\* a step of a run, or the start of a run that follows a finished run with
\* no change in between
UpdateStep ==
  \/ phase = "running" /\ phase' = "running"
  \/ quiet /\ phase' = "running"

\* C7 (as claimed): no step of the pipeline removes a stage from a record's
\* completed_stages (resets happen between runs only).
C7_Monotonic ==
  [][ UpdateStep => \A p \in tasks' : Known(p) \subseteq Known(p)' ]_vars

\* C7 (amended): a stage leaves completed_stages only when
\* get_or_create_state rebuilds the record because the video's modification
\* time or size no longer matches; the rebuilt record is empty and carries
\* the current modification time.
C7_MonotonicUnlessRebuilt ==
  [][ UpdateStep =>
        \A p \in tasks' :
          \/ Known(p) \subseteq Known(p)'
          \/ /\ pc[p] = "get_state"
             /\ startRec[p] # << >>
             /\ ~ is_video_unchanged(p, startRec[p][1])
             /\ st'[p].completed_stages = << >>
             /\ st'[p].video_modified = vfile[p].mtime ]_vars

C7_Witness ==
  /\ phase = "running"
  /\ startRec[P1] # << >>
  /\ Completed(startRec[P1][1]) = { "VideoAnalysis", "AudioExtraction" }
  /\ "VideoAnalysis" \in skipped[P1]
  /\ pc[P1] = "upd_write"
  /\ Completed(st[P1]) =
       { "VideoAnalysis", "AudioExtraction", "Transcription", "LLMCorrection" }

\* the artifacts of the resume scenario: X.wav and a meaningful X.txt, no
\* corrected transcript, no X.srt
ResumeScenario(a) ==
  a.wav /\ is_file_meaningful(a.txt) /\ a.corrected < 0 /\ ~ a.srt

ResumableRec(p) ==
  /\ phase = "running"
  /\ startRec[p] # << >>
  /\ LET r == startRec[p][1]
     IN /\ is_video_unchanged(p, r)
        /\ { "VideoAnalysis", "AudioExtraction", "Transcription" } \subseteq Completed(r)
        /\ "LLMCorrection" \notin Completed(r)
        /\ r.audio_path # << >>
        /\ outfs[file_stem(p)].wav
        /\ r.raw_transcript_path # << >>
        /\ outfs[file_stem(p)][r.raw_transcript_path[1]] # "absent"

Fresh(p) == phase = "running" /\ startRec[p] = << >>

\* C9: a fresh video whose adapters all succeed has them called in the
\* order probe, extract, transcribe, (llm), chapter, srt, and its sidecar then
\* lists every stage up to Completed as completed.
C9_FreshSequence ==
  \A p \in tasks :
    Fresh(p) /\ pc[p] = "done" /\ res[p].status = "Completed" /\ res[p].text # "none" =>
      /\ StageCalls(p) =
           << "probe", "extract", "transcribe" >>
             \o (IF llm_enabled THEN << "llm" >> ELSE << >>)
             \o << "chapter", "srt" >>
      /\ SidecarOf(p).state = "ok"
      /\ { "VideoAnalysis", "AudioExtraction", "Transcription", "LLMCorrection",
           "ChapterDetection", "SubtitleGeneration", "Completed" }
           \subseteq Completed(SidecarOf(p).rec[1])

\* C10: when the probe fails the video's result is Failed, nothing further
\* is invoked for it, and its sidecar holds a record with an error_message
\* and current_stage = Error.
C10_ProbeFailureRecorded ==
  \A p \in tasks :
    pc[p] \in { "send", "done" } /\ calls[p] # << >>
      /\ calls[p][Len(calls[p])] = "probe" /\ "VideoAnalysis" \notin Completed(st[p]) =>
        /\ res[p].status = "Failed"
        /\ SidecarOf(p).state = "ok"
        /\ SidecarOf(p).rec[1].error_message # << >>
        /\ SidecarOf(p).rec[1].current_stage = "Error"

\* the task is past chapter detection
PastChapters(p) == PastStage(p, { "fin", "send", "done" })

\* C11: when the audio extraction fails for a video, nothing further is
\* invoked for it and its result is Failed.
C11_ExtractionFatal ==
  \A p \in tasks :
    "extract" \in failed[p] =>
      /\ calls[p][Len(calls[p])] = "extract"
      /\ pc[p] \in { "send", "done" } => res[p].status = "Failed"

C13_LLMFailureZero ==
  \A p \in tasks :
    "llm" \in failed[p] =>
      /\ "LLMCorrection" \in Completed(st[p])
      /\ st[p].corrections_applied = << 0 >>
      /\ pc[p] \in { "send", "done" } => res[p].status # "Failed"

\* the run is stopped by this step
Stopped == phase = "running" /\ phase' = "idle" /\ env' # env

\* the task is between two stages: no stage and no update is under way
BetweenStages(p) == pc[p] \in { "ae", "tr", "llm", "cd", "fin", "send", "done" }

\* C14: when a run is stopped, the sidecar of every video under way is a
\* complete record (or does not exist), and for a task stopped between two
\* stages it is the record with the last completed stage.
C14_CancelConsistent ==
  [][ Stopped =>
        \A p \in tasks :
          /\ sidecar'[sidecar_filename(p)].state \in { "absent", "ok" }
          /\ BetweenStages(p) /\ st[p].completed_stages # << >> =>
               sidecar'[sidecar_filename(p)] = OkFile(st[p]) ]_vars

\* the sidecar file does not parse
Corrupt(file) == file.state \in { "empty", "garbled" }

\* C15: a sidecar that does not parse is left as it is when a run opens the
\* state directory, no record is loaded from it, and get_or_create_state
\* gives its video a new Pending record; a corrupt sidecar is removed only
\* by the operator (reset_all_stages).
C15_CorruptSkipped ==
  [][ /\ phase = "idle" /\ run' = run + 1 =>
           \A p \in videos :
             Corrupt(SidecarOf(p)) =>
               /\ sidecar'[sidecar_filename(p)] = SidecarOf(p)
               /\ cache'[generate_state_key(p)] = << >>
               /\ startRec'[p] = << >>
      /\ \A p \in tasks :
           pc[p] = "get_state" /\ pc'[p] = "va" /\ Corrupt(SidecarOf(p)) =>
             st'[p] = create_new_state(p)
      /\ \A f \in SidecarFiles :
           Corrupt(sidecar[f]) /\ sidecar'[f] = AbsentFile => env' # env ]_vars

C15_Witness ==
  /\ Corrupt(SidecarOf(P1))
  /\ run > 1
  /\ startRec[P1] = << >>
  /\ pc[P1] = "va"
  /\ st[P1] = create_new_state(P1)

\* the record get_or_create_state answers for p on a StateManager just opened
OnDisk(p) ==
  LET cached == load_existing_states[generate_state_key(p)]
  IN IF cached # << >> /\ is_video_unchanged(p, cached[1])
       THEN cached[1] ELSE create_new_state(p)

\* the sidecar of p after the step holds the record of before without the
\* stages S, with current_stage the least stage of S
IsReset(p, S) ==
  LET file == sidecar'[sidecar_filename(p)]
  IN /\ file.state = "ok"
     /\ Completed(file.rec[1]) = Completed(OnDisk(p)) \ S
     /\ file.rec[1].current_stage \in S
     /\ \A t \in S : StageOrd(file.rec[1].current_stage) <= StageOrd(t)

\* C16: a reset of the stages S of a video, by reset_stages or by
\* reset_chapter_detection_state (S = {ChapterDetection}, for the videos
\* that had it completed), leaves a sidecar whose record lacks the stages
\* of S and has the least stage of S as current_stage.
C16_ResetLeastStage ==
  [][ \A p \in videos :
        /\ \A S \in ResetChoices : ResetStages(p, S) => IsReset(p, S)
        /\ /\ reset_chapter_detection_state
           /\ vfile[p].exists
           /\ "ChapterDetection" \in Completed(OnDisk(p))
           => IsReset(p, { "ChapterDetection" }) ]_vars

\* the task of p ended with an error instead of a result
Dropped(p) == pc[p] = "done" /\ res[p].status = "Err"

\* C17: when the video file is gone by the time its task asks for its
\* record, the video has no result in the run and its sidecar is removed.
C17_VanishedPurged ==
  \A p \in tasks :
    Dropped(p) =>
      /\ \A i \in DOMAIN results : results[i].video # p
      /\ SidecarOf(p).state = "absent"

\* C18: a run over a directory without video files returns at once with
\* total = successful = failed = 0 and no results, starts no task, and
\* leaves the sidecar directory as it is.
C18_EmptyDirectory ==
  [][ /\ phase = "idle"
      /\ run' = run + 1
      /\ \A p \in videos : ~ vfile[p].exists
      => /\ report' = << [ total |-> 0, successful |-> 0, failed |-> 0 ] >>
         /\ results' = << >>
         /\ tasks' = {}
         /\ phase' = "idle"
         /\ sidecar' = sidecar ]_vars

C18_Witness ==
  /\ videos = {}
  /\ run = 1
  /\ phase = "idle"
  /\ report = << [ total |-> 0, successful |-> 0, failed |-> 0 ] >>
  /\ \A f \in SidecarFiles : sidecar[f] = AbsentFile

C20_ScanTest ==
  scandir = TestDirectory /\ detected # NotScanned =>
    /\ detected["video1"] = "Pending"
    /\ detected["video2"] = "AudioExtracted"
    /\ detected["video3"] = "LLMCorrected"

(* ---- C21 ---- *)
\* the tasks of the videos of directory d that requested the product page
Fetched(d) ==
  { p \in tasks : video_dir(p) = d /\ "fetch" \in SeqToSet(calls[p]) }

\* C21: across all volumes of one series processed in a run the product page
\* is fetched at most once; later volumes read the series chapter file.
C21_FetchedOncePerSeries ==
  \A d \in Dirs : Cardinality(Fetched(d)) <= 1

(* ---- C22 ---- *)
\* C22: when the series chapter file lies in the video's own directory,
\* chapter detection reads that file and returns its chapters; the file of
\* the chapters directory is not used and no product page is requested.
C22_VideoDirFileFirst ==
  [][ \A p \in AllVideos :
        ( pc[p] = "cd" /\ pc'[p] # "cd" /\ chapfile[video_dir(p)] ) =>
          /\ calls'[p] = calls[p] \o << "chapter", "video_dir" >>
          /\ pc'[p] # "cd_fetch"
          /\ res'[p].chapters = 1 ]_vars

\* a video was processed to the end from the file of its own directory
\* while the chapters directory held a file and a product page was listed
C22_Witness ==
  \E p \in tasks :
    /\ pc[p] = "done"
    /\ chap_out /\ pages_ok
    /\ "video_dir" \in SeqToSet(calls[p])
    /\ "fetch" \notin SeqToSet(calls[p])

(* ---- C23 ---- *)
\* the timestamps of a chapter list, in its order
Timestamps(chapters) == [ i \in DOMAIN chapters |-> chapters[i].timestamp ]

\* C23: with series chapters at 0, 300, 700, 1300 and 2100 s and a single
\* video of 1200 s, volume 1 receives the chapters at 0 and 300 s and
\* volume 2 the chapters of 1300 and 2100 s re-based to 100 and 900 s.
C23_SlicingExample ==
  ( /\ returned # << >>
    /\ args.fn = "map_chapters_to_video"
    /\ args.all_chapters = ExampleChapters
    /\ args.video_duration_seconds = 1200 ) =>
      /\ args.volume_number = << 1 >> => Timestamps(returned[1]) = << 0, 300 >>
      /\ args.volume_number = << 2 >> => Timestamps(returned[1]) = << 100, 900 >>

(* ---- C24 ---- *)
\* C24: every chapter list the chapter extractor returns has all its
\* timestamps in [0, 10800] seconds and no two adjacent timestamps that
\* differ by less than 5 seconds.
C24_ChapterListInvariant ==
  ( returned # << >> /\ args.fn = "detect_chapters" ) =>
    LET chapters == returned[1]
    IN /\ \A i \in DOMAIN chapters :
            chapters[i].timestamp >= 0 /\ chapters[i].timestamp <= 10800
       /\ \A i \in DOMAIN chapters :
            i > 1 => Abs(chapters[i].timestamp - chapters[i - 1].timestamp) >= 5

(* ---- C25 ---- *)
\* the age in seconds of the cache that is read
CacheAge == args.now - args.file.cache[1].timestamp

\* the validity window of the read, in seconds
Window == args.cache_ttl_hours * 3600

CorrectsWithList(p) ==
  /\ pc[p] = "llm"
  /\ calls'[p] = Append(calls[p], "llm")
  /\ "llm" \notin failed'[p]
  /\ st'[p].corrections_applied = << 1 >>

Chars(text) == { text[i] : i \in DOMAIN text }

\* the text contains the piece
Contains(text, piece) ==
  \E i \in 1 .. Len(text) - Len(piece) + 1 :
    SubSeq(text, i, i + Len(piece) - 1) = piece

\* no replacement text contains an original of the list
Stable(replacements) ==
  \A i, j \in DOMAIN replacements :
    ~ Contains(replacements[i].replacement, replacements[j].original)

\* no replacement text is empty or shares a character with an original
Apart(replacements) ==
  \A i, j \in DOMAIN replacements :
    /\ replacements[i].replacement # << >>
    /\ Chars(replacements[i].replacement) \cap Chars(replacements[j].original) = {}

\* the list with the replacement of the longer original first
LongestFirst(replacements) ==
  IF Len(replacements) = 2 /\
     Len(replacements[2].original) > Len(replacements[1].original)
    THEN << replacements[2], replacements[1] >>
    ELSE replacements

Applied == returned # << >> /\ args.fn = "apply_text_replacements"

C28_SrtWellFormed ==
  ( returned # << >> /\ args.fn = "generate_srt_file" /\ returned[1].srt # << >> ) =>
    LET entries == returned[1].srt[1]
    IN \A i \in DOMAIN entries :
         /\ entries[i].index = i
         /\ i > 1 => entries[i - 1].start <= entries[i].start
         /\ entries[i].end > entries[i].start

(* ---- C29 ---- *)
\* C29: SRTGenerator::validate returns a list of issues instead of
\* rejecting or aborting: for an entry whose end time precedes its start
\* time the list contains "End time is not after start time", for an entry
\* with empty text it contains "Empty text".
C29_ValidateFlags ==
  ( returned # << >> /\ args.fn = "validate" ) =>
    /\ ~ returned[1].panicked
    /\ \A i \in DOMAIN args.entries :
         /\ args.entries[i].end < args.entries[i].start =>
              Issue(<< i >>, "End time is not after start time")
                \in SeqToSet(returned[1].issues)
         /\ args.entries[i].text = "" =>
              Issue(<< i >>, "Empty text") \in SeqToSet(returned[1].issues)

(* ---- C30 ---- *)
Scanned == returned # << >> /\ args.fn = "scan_for_work"

\* the videos of the work items returned
WorkVideos == { w.video : w \in returned[1] }

\* every scanned video whose stage is not Completed is in the work, and no
\* other
WorkIsNotCompleted ==
  \A s \in ScanStems :
    s \in WorkVideos <=> detected[s] \notin { "none", "Completed" }

\* the video of stem s lies in the directory with all its artifacts
AllPresent(s) ==
  /\ is_video_file(scandir[s].ext)
  /\ scandir[s].a.wav /\ scandir[s].a.srt
  /\ scandir[s].a.txt >= 0 /\ scandir[s].a.corrected >= 0

ClaimedFilename ==
  << "T", "e", "s", "t", "F", "i", "l", "e", "s", "2", "_", "C", "l", "o", "s", "e", "d", "G", "u",
     "a", "r", "d", "R", "e", "i", "n", "t", "r", "o", "d", "u", "c", "e", "d",
     "b", "y", "A", "d", "a", "m", "W", "a", "r", "d", "z", "i", "n", "s", "k", "i", "1", ".", "m", "p", "4" >>

MandatoryStages ==
  { "VideoAnalysis", "AudioExtraction", "Transcription", "LLMCorrection",
    "ChapterDetection" }

\* C32: whenever Completed is in a record's completed_stages,
\* VideoAnalysis, AudioExtraction, Transcription, LLMCorrection and
\* ChapterDetection are in it too.
C32_CompletedHasAllStages ==
  \A f \in SidecarFiles :
    ( sidecar[f].state = "ok"
      /\ "Completed" \in SeqToSet(sidecar[f].rec[1].completed_stages) ) =>
        MandatoryStages \subseteq SeqToSet(sidecar[f].rec[1].completed_stages)

(* ---- C33 ---- *)
\* process_videos_parallel has returned: every task delivered its result
\* and ended, the channel is closed and drained, every permit is back
Returned ==
  /\ phase = "idle"
  /\ report # << >>
  /\ \A p \in tasks : pc[p] = "done"
  /\ chan = << >>
  /\ permits = workers

\* C33: process_videos_parallel terminates without deadlock: every spawned
\* task eventually acquires a permit and delivers its result over the
\* bounded channel, the channel then closes, and afterwards all N permits
\* are available again.
C33_Terminates ==
  /\ \A p \in AllVideos : ( pc[p] = "spawned" ) ~> ( pc[p] = "send" )
  /\ \A p \in AllVideos : ( pc[p] = "send" ) ~> ( pc[p] = "done" )
  /\ ( phase = "running" ) ~> Returned

(* ---- C34 ---- *)
\* the run has returned, two tasks shared one identity key and each ended
\* with the update_state that follows the marking of Completed
UpdatesCompleted ==
  /\ phase = "idle"
  /\ Cardinality(tasks) = 2
  /\ \A p, q \in tasks : generate_state_key(p) = generate_state_key(q)
  /\ \A p \in tasks : pc[p] = "done" /\ res[p].status = "Completed"

\* C34: after any interleaving of update calls on the same identity key
\* has run to completion, the in-memory entry and the sidecar on disk hold
\* the same record.
C34_CacheMatchesDisk ==
  UpdatesCompleted =>
    \A p \in tasks :
      sidecar[sidecar_filename(p)] = [ state |-> "ok", rec |-> cache[generate_state_key(p)] ]

(* ---- C35 ---- *)
\* the task of p takes a step of save_state_to_disk
WritesSidecar(p) ==
  /\ pc[p] \in { "upd_trunc", "upd_write" }
  /\ pc'[p] # pc[p]

\* C35: two videos with distinct identity keys never share a sidecar file,
\* so an update for one video never overwrites the other's persisted
\* record.
C35_SidecarPerKey ==
  [][ \A p, q \in tasks :
        ( generate_state_key(p) # generate_state_key(q) /\ WritesSidecar(p) ) =>
          /\ sidecar_filename(p) # sidecar_filename(q)
          /\ sidecar'[sidecar_filename(q)] = sidecar[sidecar_filename(q)] ]_vars

(* ---- C36 ---- *)
\* C36: process_directory returns exactly one per-video result for every
\* discovered video whose file still exists, so total equals the number of
\* discovered videos and total = successful + failed.
C36_OneResultPerVideo ==
  ( phase = "idle" /\ tasks # {} /\ report # << >> ) =>
    /\ \A p \in tasks :
         vfile[p].exists =>
           Cardinality({ i \in DOMAIN results : results[i].video = p }) = 1
    /\ ( \A p \in tasks : vfile[p].exists ) =>
         report[1].total = Cardinality(tasks)
    /\ report[1].total = report[1].successful + report[1].failed

(* ---- C37 ---- *)
\* in the run under way stage 4 was skipped for p as already completed, and
\* the correction of an earlier run had written <stem>.txt
SkippedCorrection(p) ==
  /\ phase = "running"
  /\ "LLMCorrection" \in skipped[p]
  /\ st[p].corrected_transcript_path # << >>
  /\ outfs[file_stem(p)].txt = "corr"

\* C37: when LLMCorrection is skipped on a later run because it is already
\* completed, the transcript text carried into the remaining stages is the
\* corrected text, not the pre-correction original kept in <stem>_old.txt.
C37_SkipCarriesCorrected ==
  \A p \in tasks : SkippedCorrection(p) => res[p].text = "corr"

\* C38: the per-video loop of process_video terminates: an iteration after
\* which the loop goes round again has strictly advanced the video's detected
\* stage (every other iteration returned an error or left the loop), and a
\* call of process_video that is running eventually returns.
InLoop == args.fn = "process_video" /\ returned = << >>
C38_LoopTerminates ==
  /\ [][ (InLoop /\ InLoop')
          => stage_rank(detected'[args.video]) > stage_rank(detected[args.video]) ]_vars
  /\ (InLoop ~> returned # << >>)
C38_Witness ==
  /\ InLoop
  /\ ~ args.dry_run
  /\ detected[args.video] = "Completed"

\* C39: a video for which process_video returned Ok outside dry-run mode is
\* detected as Completed and the next scan_for_work returns no work for it.
C39_OkMeansCompleted ==
  (args.fn = "process_video" /\ returned = << "Ok" >> /\ ~ args.dry_run)
    => /\ detect_processing_stage(scandir[args.video].a) = "Completed"
       /\ scan_for_work(scan_directory(scandir)) = {}

\* C40: for a series list that spans several volumes, every chapter of the
\* list is emitted, re-based to its volume's start, in the slice of exactly
\* one of the volumes 1..count.
VolumesOf(chapters, duration) == DOMAIN calculate_video_boundaries(chapters, duration)
EmittedFor(chapters, duration, i) ==
  { v \in VolumesOf(chapters, duration) :
      LET start == calculate_video_boundaries(chapters, duration)[v].start_time
          slice == map_chapters_to_video(chapters, duration, << v >>)
      IN \E j \in DOMAIN slice :
           slice[j] = [ chapters[i] EXCEPT !.timestamp = @ - start ] }
C40_SlicesPartition ==
  (/\ args.fn = "map_chapters_to_video"
   /\ returned # << >>
   /\ Cardinality(VolumesOf(args.all_chapters, args.video_duration_seconds)) > 1)
    => \A i \in DOMAIN args.all_chapters :
         Cardinality(EmittedFor(args.all_chapters, args.video_duration_seconds, i)) = 1

====
